---- MODULE Spec2Model ----
(***************************************************************************)
(* A model of the FileOps MCP server (cornebidouil/file-ops-mcp): path     *)
(* sandboxing (utils/security.py), text/binary classification, the file    *)
(* verbs of operations/file_ops.py and the git checkpoint wrapper of       *)
(* utils/git_utils.py.                                                     *)
(*                                                                         *)
(* Strings are sequences of one-character strings, file data are sequences *)
(* of bytes (0..255), text is a sequence of Unicode code points.  The host *)
(* is POSIX: os.sep is "/", os.linesep is LF, os.path is posixpath.        *)
(***************************************************************************)
EXTENDS Integers, Sequences, FiniteSets, TLC

VARIABLES
    config,     \* constants.config, as initialize_server left it
    now,        \* int(time.time()), the clock second
    fs,         \* the filesystem: absolute path -> directory or file node
    repos,      \* the git repositories: root directory -> repository
    calls,      \* each request slot's handler: its position and locals
    ncalls,     \* the number of tool calls begun
    pg_raw,     \* PathGuard harness: the raw path handed to sanitize_path
    pg_res,     \* PathGuard harness: what sanitize_path did with it
    cl_path,    \* classifier harness: the path handed to is_text_file
    cl_file,    \* classifier harness: what opening and reading it yields
    cl_res,     \* classifier harness: what is_text_file returned
    tools,      \* the dispatcher's registry: tool name -> registered function
    seclog,     \* the security events written to stderr, oldest first
    reply       \* what the dispatcher got from the handler it last invoked

envVars == <<config, now>>
sysVars == <<fs, repos, calls, ncalls>>
pathVars == <<pg_raw, pg_res>>
classVars == <<cl_path, cl_file, cl_res>>
boundVars == <<tools, seclog, reply>>
vars == <<config, now, fs, repos, calls, ncalls,
          pg_raw, pg_res, cl_path, cl_file, cl_res, tools, seclog, reply>>

(***************************************************************************)
(* Bounds of the model.                                                    *)
(***************************************************************************)
MaxPathLen == 6

(***************************************************************************)
(* Strings.                                                                *)
(***************************************************************************)
SeqsUpTo(S, n) == UNION {[1..k -> S] : k \in 0..n}

\* str.startswith
startswith(s, prefix) ==
    /\ Len(prefix) <= Len(s)
    /\ SubSeq(s, 1, Len(prefix)) = prefix

\* str.endswith
endswith(s, suffix) ==
    /\ Len(suffix) <= Len(s)
    /\ SubSeq(s, Len(s) - Len(suffix) + 1, Len(s)) = suffix

RECURSIVE split(_, _)
\* str.split(sep) for a one-character separator
split(s, sep) ==
    IF \A i \in 1..Len(s) : s[i] # sep
    THEN <<s>>
    ELSE LET i == CHOOSE k \in 1..Len(s) :
                      s[k] = sep /\ \A j \in 1..(k - 1) : s[j] # sep
         IN  <<SubSeq(s, 1, i - 1)>> \o split(SubSeq(s, i + 1, Len(s)), sep)

RECURSIVE join(_, _)
\* sep.join(comps)
join(sep, comps) ==
    IF comps = <<>> THEN <<>>
    ELSE IF Len(comps) = 1 THEN comps[1]
    ELSE comps[1] \o sep \o join(sep, Tail(comps))

(***************************************************************************)
(* The sandbox root and the configuration.                                 *)
(***************************************************************************)
SLASH == "/"
DOT == <<".">>
DOTDOT == <<".", ".">>

\* The working directory the server was started on: /w
WorkingDir == <<"/", "w">>

\* FileOpsConfig, the fields the substrate reads
FileOpsConfig(read_only, git_enabled, git_auto_commit) ==
    [abs_working_dir |-> WorkingDir,
     read_only       |-> read_only,
     git_enabled     |-> git_enabled,
     git_auto_commit |-> git_auto_commit]

\* The defaults of the dataclass, after initialize_server set the directory
DefaultConfig == FileOpsConfig(FALSE, TRUE, TRUE)

(***************************************************************************)
(* posixpath.                                                              *)
(***************************************************************************)
isabs(path) == startswith(path, <<SLASH>>)

RECURSIVE norm_comps(_, _, _)
\* The loop of posixpath.normpath over the components of the path
norm_comps(comps, new_comps, initial_slashes) ==
    IF comps = <<>> THEN new_comps
    ELSE LET comp == Head(comps)
             rest == Tail(comps)
         IN  IF comp = <<>> \/ comp = DOT
             THEN norm_comps(rest, new_comps, initial_slashes)
             ELSE IF \/ comp # DOTDOT
                     \/ (initial_slashes = 0 /\ new_comps = <<>>)
                     \/ (new_comps # <<>> /\ new_comps[Len(new_comps)] = DOTDOT)
             THEN norm_comps(rest, Append(new_comps, comp), initial_slashes)
             ELSE IF new_comps # <<>>
             THEN norm_comps(rest, SubSeq(new_comps, 1, Len(new_comps) - 1),
                             initial_slashes)
             ELSE norm_comps(rest, new_comps, initial_slashes)

\* os.path.normpath
normpath(path) ==
    IF path = <<>> THEN DOT
    ELSE LET initial_slashes ==
                 IF ~startswith(path, <<SLASH>>) THEN 0
                 ELSE IF startswith(path, <<SLASH, SLASH>>)
                         /\ ~startswith(path, <<SLASH, SLASH, SLASH>>)
                      THEN 2 ELSE 1
             comps == norm_comps(split(path, SLASH), <<>>, initial_slashes)
             body == join(<<SLASH>>, comps)
             out == [i \in 1..initial_slashes |-> SLASH] \o body
         IN  IF out = <<>> THEN DOT ELSE out

\* os.path.join(a, b)
path_join(a, b) ==
    IF isabs(b) THEN b
    ELSE IF a = <<>> \/ endswith(a, <<SLASH>>) THEN a \o b
    ELSE a \o <<SLASH>> \o b

\* os.path.abspath; the process's working directory is the sandbox root's
\* parent, so a relative path is never inside the sandbox by accident
abspath(path) ==
    IF isabs(path) THEN normpath(path)
    ELSE normpath(path_join(<<SLASH>>, path))

\* os.path.dirname
dirname(path) ==
    LET idx == {i \in 1..Len(path) : path[i] = SLASH}
        last == IF idx = {} THEN 0 ELSE CHOOSE i \in idx : \A j \in idx : j <= i
        head == SubSeq(path, 1, last)
    IN  IF head # <<>> /\ \E i \in 1..Len(head) : head[i] # SLASH
        THEN LET keep == CHOOSE k \in 1..Len(head) :
                             head[k] # SLASH /\ \A j \in (k + 1)..Len(head) : head[j] = SLASH
             IN  SubSeq(head, 1, keep)
        ELSE head

\* os.path.basename
basename(path) ==
    LET idx == {i \in 1..Len(path) : path[i] = SLASH}
        last == IF idx = {} THEN 0 ELSE CHOOSE i \in idx : \A j \in idx : j <= i
    IN  SubSeq(path, last + 1, Len(path))

(***************************************************************************)
(* utils/security.py: the path guard.                                      *)
(***************************************************************************)
\* The characters of [\x00-\x1F\x7F]; the model's alphabet has tab, LF and CR
ControlChars == {"\t", "\n", "\r"}

\* The characters of the second re.sub: ; & | $ and the backquote (which no
\* alphabet of the model holds)
ShellChars == {";", "&", "|", "$"}

NotControl(c) == c \notin ControlChars
NotShell(c) == c \notin ShellChars

is_safe_path(path) ==
    startswith(abspath(path), config.abs_working_dir)

\* The result of sanitize_path: the path it returns, or the ValueError it raises
sanitize_path(path) ==
    IF path = <<>>
    THEN [ok |-> FALSE, path |-> <<>>, err |-> "Path cannot be None or empty"]
    ELSE LET stripped == SelectSeq(SelectSeq(path, NotControl), NotShell)
             norm_path == normpath(stripped)
         IN  IF isabs(norm_path)
             THEN IF ~is_safe_path(norm_path)
                  THEN [ok |-> FALSE, path |-> <<>>,
                        err |-> "outside the working directory"]
                  ELSE [ok |-> TRUE, path |-> norm_path, err |-> ""]
             ELSE LET abs_path == path_join(config.abs_working_dir, norm_path)
                  IN  IF ~is_safe_path(abs_path)
                      THEN [ok |-> FALSE, path |-> <<>>,
                            err |-> "outside the working directory"]
                      ELSE [ok |-> TRUE, path |-> abs_path, err |-> ""]

(***************************************************************************)
(* Bytes and UTF-8 (the codec behind encoding='utf-8' and bytes.decode).   *)
(***************************************************************************)
IsCont(b) == 128 <= b /\ b <= 191

\* The UTF-8 encoding of one code point
utf8_char(cp) ==
    IF cp < 128 THEN <<cp>>
    ELSE IF cp < 2048 THEN <<192 + (cp \div 64), 128 + (cp % 64)>>
    ELSE IF cp < 65536
    THEN <<224 + (cp \div 4096), 128 + ((cp \div 64) % 64), 128 + (cp % 64)>>
    ELSE <<240 + (cp \div 262144), 128 + ((cp \div 4096) % 64),
           128 + ((cp \div 64) % 64), 128 + (cp % 64)>>

RECURSIVE utf8_encode(_)
\* str.encode('utf-8')
utf8_encode(text) ==
    IF text = <<>> THEN <<>>
    ELSE utf8_char(Head(text)) \o utf8_encode(Tail(text))

\* The length in bytes of the well-formed UTF-8 sequence data starts with,
\* 0 when it starts with none
utf8_lead(data) ==
    LET b == data[1]
        n == Len(data)
    IN  IF b < 128 THEN 1
        ELSE IF 194 <= b /\ b <= 223
        THEN IF n >= 2 /\ IsCont(data[2]) THEN 2 ELSE 0
        ELSE IF 224 <= b /\ b <= 239
        THEN IF /\ n >= 3
                /\ IsCont(data[2])
                /\ IsCont(data[3])
                /\ (b = 224 => data[2] >= 160)
                /\ (b = 237 => data[2] <= 159)
             THEN 3 ELSE 0
        ELSE IF 240 <= b /\ b <= 244
        THEN IF /\ n >= 4
                /\ IsCont(data[2])
                /\ IsCont(data[3])
                /\ IsCont(data[4])
                /\ (b = 240 => data[2] >= 144)
                /\ (b = 244 => data[2] <= 143)
             THEN 4 ELSE 0
        ELSE 0

\* The code point of a well-formed sequence of k bytes
utf8_point(data, k) ==
    IF k = 1 THEN data[1]
    ELSE IF k = 2 THEN (data[1] - 192) * 64 + (data[2] - 128)
    ELSE IF k = 3
    THEN (data[1] - 224) * 4096 + (data[2] - 128) * 64 + (data[3] - 128)
    ELSE (data[1] - 240) * 262144 + (data[2] - 128) * 4096
         + (data[3] - 128) * 64 + (data[4] - 128)

RECURSIVE utf8_decode(_)
\* bytes.decode('utf-8'): the text, or UnicodeDecodeError (ok = FALSE)
utf8_decode(data) ==
    IF data = <<>> THEN [ok |-> TRUE, text |-> <<>>]
    ELSE LET k == utf8_lead(data)
         IN  IF k = 0 THEN [ok |-> FALSE, text |-> <<>>]
             ELSE LET rest == utf8_decode(SubSeq(data, k + 1, Len(data)))
                  IN  IF rest.ok
                      THEN [ok |-> TRUE,
                            text |-> <<utf8_point(data, k)>> \o rest.text]
                      ELSE rest

(***************************************************************************)
(* utils/security.py: the text/binary classifier.                          *)
(***************************************************************************)
\* Path(path).suffix.lower(); the model's names are lower case
suffix(path) ==
    LET name == basename(path)
        dots == {i \in 1..Len(name) : name[i] = "."}
        i == IF dots = {} THEN 0 ELSE CHOOSE k \in dots : \A j \in dots : j <= k
    IN  IF 1 < i /\ i < Len(name) THEN SubSeq(name, i, Len(name)) ELSE <<>>

EXT_TXT == <<".", "t", "x", "t">>
EXT_PNG == <<".", "p", "n", "g">>
EXT_BIN == <<".", "b", "i", "n">>

\* binary_extensions of is_text_file, the ones the model's names can carry
binary_extensions == {EXT_PNG, EXT_BIN}

\* mimetypes.guess_type(path)[0] for the extensions of the model
guess_type(path) ==
    LET ext == suffix(path)
    IN  IF ext = EXT_TXT THEN "text/plain"
        ELSE IF ext = EXT_PNG THEN "image/png"
        ELSE "None"

\* The bytes f.read(8192) returns
SAMPLE_SIZE == 8192
read_sample(data) ==
    IF Len(data) <= SAMPLE_SIZE THEN data ELSE SubSeq(data, 1, SAMPLE_SIZE)

\* sum(1 for b in sample if 32 <= b <= 126 or b in [9, 10, 13])
RECURSIVE printable_count(_)
printable_count(sample) ==
    IF sample = <<>> THEN 0
    ELSE (IF (32 <= Head(sample) /\ Head(sample) <= 126)
             \/ Head(sample) \in {9, 10, 13}
          THEN 1 ELSE 0) + printable_count(Tail(sample))

\* The file's bytes when open(path, 'rb') succeeds
Unreadable == [readable |-> FALSE, data |-> <<>>]
Readable(data) == [readable |-> TRUE, data |-> data]

\* is_text_file(path), given what opening and reading the file yields.
\* (printable / len(sample)) > 0.75 is 4 * printable > 3 * len(sample).
is_text_file_of(path, file) ==
    IF suffix(path) \in binary_extensions THEN FALSE
    ELSE IF guess_type(path) = "text/plain" THEN TRUE
    ELSE IF guess_type(path) = "image/png" THEN FALSE
    ELSE IF ~file.readable THEN FALSE
    ELSE LET sample == read_sample(file.data)
         IN  IF sample = <<>> THEN TRUE
             ELSE IF \E i \in 1..Len(sample) : sample[i] = 0 THEN FALSE
             ELSE IF ~utf8_decode(sample).ok THEN FALSE
             ELSE 4 * printable_count(sample) > 3 * Len(sample)

\* binary_signatures of _has_binary_signature
binary_signatures ==
    { <<77, 90>>, <<127, 69, 76, 70>>, <<137, 80, 78, 71>>, <<255, 216, 255>>,
      <<80, 75, 3, 4>>, <<80, 75, 5, 6>>, <<80, 75, 7, 8>>, <<37, 80, 68, 70>>,
      <<71, 73, 70, 56>>, <<66, 77>>, <<0, 0, 1, 0>>, <<82, 73, 70, 70>>,
      <<31, 139, 8>>, <<66, 90, 104>>, <<254, 237, 250, 206>>,
      <<254, 237, 250, 207>>, <<202, 254, 186, 190>>, <<208, 207, 17, 224>> }

\* _has_binary_signature(data); only is_text_file_robust calls it, and no
\* verb calls is_text_file_robust
has_binary_signature(data) ==
    \E signature \in binary_signatures : startswith(data, signature)

PNG_MAGIC == <<137, 80, 78, 71>>

(***************************************************************************)
(* The filesystem.  fs maps each existing absolute path to its node.       *)
(***************************************************************************)
Dir == [kind |-> "dir", data |-> <<>>]
File(data) == [kind |-> "file", data |-> data]

\* os.path.exists, os.path.isdir, os.path.isfile, os.path.getsize
\* The name the kernel resolves a path to: the nodes of the filesystem are
\* kept under their normal names, and there are no symbolic links
resolve(path) == normpath(path)

exists(f, path) == resolve(path) \in DOMAIN f
isdir(f, path) == exists(f, path) /\ f[resolve(path)].kind = "dir"
isfile(f, path) == exists(f, path) /\ f[resolve(path)].kind = "file"

\* The bytes of the file at path
read_bytes(f, path) == f[resolve(path)].data
getsize(f, path) == Len(read_bytes(f, path))

\* The filesystem with the file at path holding data (created or replaced)
FsPut(f, path, data) == (resolve(path) :> File(data)) @@ f

\* The filesystem without the node at path: os.remove, os.rmdir
FsDel(f, path) == [q \in DOMAIN f \ {resolve(path)} |-> f[q]]

\* The paths strictly below directory d
Below(f, d) == {q \in DOMAIN f : startswith(q, resolve(d) \o <<SLASH>>)}

\* shutil.rmtree
FsDelTree(f, d) ==
    [q \in DOMAIN f \ ({resolve(d)} \cup Below(f, d)) |-> f[q]]

RECURSIVE Ancestors(_)
\* The directory and every directory above it, up to /
Ancestors(d) ==
    IF d = <<>> \/ d = <<SLASH>> \/ dirname(d) = d THEN {d}
    ELSE {d} \cup Ancestors(dirname(d))

\* os.makedirs(d): ok is FALSE (an OSError) when a file stands in the way
makedirs(f, d) ==
    LET missing == {a \in Ancestors(resolve(d)) : a # <<>> /\ ~exists(f, a)}
        blocked == \E a \in Ancestors(resolve(d)) : isfile(f, a)
    IN  IF blocked THEN [ok |-> FALSE, fs |-> f]
        ELSE [ok |-> TRUE, fs |-> [a \in missing |-> Dir] @@ f]

\* generate_checksum: SHA-256 of the file's bytes, taken as collision-free:
\* the digest stands for exactly the byte string it was computed from
sha256(data) == <<"sha256", data>>
generate_checksum(f, path) == sha256(read_bytes(f, path))

(***************************************************************************)
(* Text files: open(path, 'r' | 'w' | 'a', encoding='utf-8'), newline=None.*)
(***************************************************************************)
LF == 10
CR == 13

\* os.linesep on the POSIX host
linesep == <<LF>>

RECURSIVE translate_out(_)
\* What a text-mode write does to the text: each LF becomes os.linesep
translate_out(text) ==
    IF text = <<>> THEN <<>>
    ELSE (IF Head(text) = LF THEN linesep ELSE <<Head(text)>>)
         \o translate_out(Tail(text))

\* The bytes f.write(text) puts into a file opened in text mode
text_write(text) == utf8_encode(translate_out(text))

RECURSIVE translate_in(_)
\* Universal newlines on reading: CR LF and a lone CR both become LF
translate_in(text) ==
    IF text = <<>> THEN <<>>
    ELSE IF Head(text) = CR
    THEN IF Len(text) >= 2 /\ text[2] = LF
         THEN <<LF>> \o translate_in(SubSeq(text, 3, Len(text)))
         ELSE <<LF>> \o translate_in(Tail(text))
    ELSE <<Head(text)>> \o translate_in(Tail(text))

\* f.read() of a file opened in text mode: the text or UnicodeDecodeError
text_read(data) ==
    LET d == utf8_decode(data)
    IN  IF d.ok THEN [ok |-> TRUE, text |-> translate_in(d.text)]
        ELSE [ok |-> FALSE, text |-> <<>>]

RECURSIVE splitlines_keep(_)
\* f.readlines() on the translated text: lines keep their LF
splitlines_keep(text) ==
    IF text = <<>> THEN <<>>
    ELSE IF \A i \in 1..Len(text) : text[i] # LF THEN <<text>>
    ELSE LET i == CHOOSE k \in 1..Len(text) :
                      text[k] = LF /\ \A j \in 1..(k - 1) : text[j] # LF
         IN  <<SubSeq(text, 1, i)>>
             \o splitlines_keep(SubSeq(text, i + 1, Len(text)))

RECURSIVE concat(_)
\* ''.join(lines), what f.writelines(lines) writes
concat(lines) ==
    IF lines = <<>> THEN <<>> ELSE Head(lines) \o concat(Tail(lines))

\* old in content
contains(content, old) ==
    \E i \in 1..(Len(content) - Len(old) + 1) :
        SubSeq(content, i, i + Len(old) - 1) = old

RECURSIVE str_replace(_, _, _)
\* content.replace(old, new), old not empty: every non-overlapping
\* occurrence, left to right
str_replace(content, old, new) ==
    IF Len(content) < Len(old) THEN content
    ELSE IF SubSeq(content, 1, Len(old)) = old
    THEN new \o str_replace(SubSeq(content, Len(old) + 1, Len(content)), old, new)
    ELSE <<Head(content)>> \o str_replace(Tail(content), old, new)

\* list.insert(index, item)
list_insert(lines, index, item) ==
    SubSeq(lines, 1, index) \o <<item>> \o SubSeq(lines, index + 1, Len(lines))

(***************************************************************************)
(* utils/security.py: validate_operation.                                  *)
(***************************************************************************)
\* MAX_FILE_SIZE is 10 * 1024 * 1024 in constants.py; the model scales it
\* down so that the boundary is within reach of the bounded contents
MAX_FILE_SIZE == 2

ReadOnlyOps ==
    {"create_file", "update_file", "rewrite_file", "delete_file", "create_dir",
     "delete_dir", "remove_from_file", "append_to_file", "insert_in_file",
     "git_init", "git_commit", "git_revert", "copy_file", "move_file",
     "delete_multiple_files", "replace_all_in_file",
     "replace_all_emojis_in_files"}

MustExistOps ==
    {"update_file", "rewrite_file", "delete_file", "delete_dir", "get_tree",
     "remove_from_file", "git_log", "git_show", "git_diff", "git_revert",
     "copy_file", "move_file", "delete_multiple_files", "replace_all_in_file"}

FileTypeOps ==
    {"update_file", "rewrite_file", "delete_file", "remove_from_file",
     "append_to_file", "insert_in_file", "git_log", "git_show", "git_diff",
     "git_revert", "replace_all_in_file"}

DirTypeOps == {"list_dir", "delete_dir", "get_tree"}

BinaryCheckOps ==
    {"update_file", "rewrite_file", "read_file", "remove_from_file",
     "append_to_file", "insert_in_file", "replace_all_in_file"}

SizeCheckOps == {"read_file", "git_show"}

\* is_text_file(path) on the filesystem f
is_text_file(f, path) ==
    is_text_file_of(path, IF isfile(f, path) THEN Readable(read_bytes(f, path))
                          ELSE Unreadable)

Rejected(err, event) ==
    [ok |-> FALSE, path |-> <<>>, err |-> err, event |-> event]

\* A validation that takes the existence check from the wrong flag
validate_by_binary_flag(f, san, operation, check_binary, check_exists) ==
    IF ~san.ok THEN Rejected(san.err, "invalid_path")
    ELSE IF /\ check_binary
            /\ operation \in MustExistOps
            /\ ~exists(f, san.path)
    THEN Rejected("not found", "none")
    ELSE IF operation \in FileTypeOps /\ isdir(f, san.path)
    THEN Rejected("is a directory", "none")
    ELSE IF operation \in DirTypeOps /\ isfile(f, san.path)
    THEN Rejected("is a file", "none")
    ELSE IF /\ check_binary
            /\ operation \in BinaryCheckOps
            /\ exists(f, san.path)
            /\ ~is_text_file(f, san.path)
    THEN Rejected("binary", "binary_file_operation")
    ELSE IF /\ operation \in SizeCheckOps
            /\ isfile(f, san.path)
            /\ getsize(f, san.path) > MAX_FILE_SIZE
    THEN Rejected("too large", "file_size_limit")
    ELSE [ok |-> TRUE, path |-> san.path, err |-> "", event |-> "none"]

\* validate_operation(path, operation, check_binary, check_exists) on the
\* filesystem f: the absolute path, or the ValueError raised and the
\* security event logged before it ("none" when none is logged)
validate_sanitized(f, san, operation, check_binary, check_exists) ==
    LET abs_path == san.path
    IN  IF ~san.ok THEN Rejected(san.err, "invalid_path")
        ELSE IF /\ check_exists
                /\ operation \in MustExistOps
                /\ ~exists(f, abs_path)
        THEN Rejected("not found", "none")
        ELSE IF operation \in FileTypeOps /\ isdir(f, abs_path)
        THEN Rejected("is a directory", "none")
        ELSE IF operation \in DirTypeOps /\ isfile(f, abs_path)
        THEN Rejected("is a file", "none")
        ELSE IF /\ check_binary
                /\ operation \in BinaryCheckOps
                /\ exists(f, abs_path)
                /\ ~is_text_file(f, abs_path)
        THEN Rejected("binary", "binary_file_operation")
        ELSE IF /\ operation \in SizeCheckOps
                /\ isfile(f, abs_path)
                /\ getsize(f, abs_path) > MAX_FILE_SIZE
        THEN Rejected("too large", "file_size_limit")
        ELSE [ok |-> TRUE, path |-> abs_path, err |-> "", event |-> "none"]

\* The read-only check comes first, then the path is sanitized and checked
validate_operation(f, path, operation, check_binary, check_exists) ==
    IF config.read_only /\ operation \in ReadOnlyOps
    THEN Rejected("read-only", "write_attempt_in_readonly")
    ELSE validate_sanitized(f, sanitize_path(path), operation, check_binary,
                            check_exists)

(***************************************************************************)
(* utils/git_utils.py over GitPython.  A repository is                     *)
(*   commits  : the commits made, in order; a commit's id is its position  *)
(*   index    : the staging area, path -> blob                             *)
(*   branches : branch name -> commit id                                   *)
(*   active   : the checked-out branch (unborn while it has no commit)     *)
(* Paths in trees are kept absolute; relpath gives the name git shows.     *)
(* Files that .gitignore would hide and the gitlink entry of a nested      *)
(* repository are outside the model.                                       *)
(***************************************************************************)
EmptyTree == <<>>

NewRepo == [commits |-> <<>>, index |-> EmptyTree, branches |-> <<>>,
            active |-> "master"]

\* The id of the commit HEAD points to, 0 while the branch is unborn
HeadId(repo) ==
    IF repo.active \in DOMAIN repo.branches THEN repo.branches[repo.active] ELSE 0

\* The tree of the commit HEAD points to
HeadTree(repo) ==
    IF HeadId(repo) = 0 THEN EmptyTree ELSE repo.commits[HeadId(repo)].tree

\* os.path.relpath(path, root) for a path at or below root
relpath(path, root) ==
    IF path = root THEN DOT
    ELSE IF startswith(path, root \o <<SLASH>>)
    THEN SubSeq(path, Len(root) + 2, Len(path))
    ELSE path

\* The longest of a set of directories on one line of descent
Nearest(roots) ==
    IF roots = {} THEN <<>>
    ELSE CHOOSE a \in roots : \A b \in roots : Len(b) <= Len(a)

\* git.Repo(path, search_parent_directories=True): the nearest directory at
\* or above path that holds a repository, <<>> when there is none
FindRoot(r, path) ==
    Nearest({a \in Ancestors(resolve(path)) : a \in DOMAIN r})

GitOk(root) == [ok |-> TRUE, root |-> root, err |-> ""]
GitErr(err) == [ok |-> FALSE, root |-> <<>>, err |-> err]

\* get_repo: the check that the repository found lies in the working
\* directory
get_repo_found(root) ==
    IF root = <<>> THEN GitErr("No Git repository found")
    ELSE IF ~startswith(abspath(root), config.abs_working_dir)
    THEN GitErr("Repository root is outside the working directory")
    ELSE GitOk(root)

\* get_repo: the search from the directory
get_repo_from(f, r, dir) ==
    IF ~exists(f, dir) THEN GitErr("Path does not exist")
    ELSE get_repo_found(FindRoot(r, dir))

\* get_repo(path): the repository's root, or the GitError raised
get_repo(f, r, path) ==
    IF ~config.git_enabled THEN GitErr("Git functionality is disabled")
    ELSE get_repo_from(f, r, IF isfile(f, path) THEN dirname(path) ELSE path)

GITIGNORE == <<".", "g", "i", "t", "i", "g", "n", "o", "r", "e">>

\* What init_repo writes into a new .gitignore, cut to its first line's
\* first character and its line end
GITIGNORE_TEXT == <<35, LF>>

InitDone(ok, f, r, created) ==
    [ok |-> ok, fs |-> f, repos |-> r, created |-> created]

\* init_repo: the repository is made in the directory unless one is rooted
\* there already, and .gitignore is written unless the directory has one
init_repo_in(f, r, dir, gitignore_path) ==
    IF ~isdir(f, dir) THEN InitDone(FALSE, f, r, FALSE)
    ELSE IF resolve(dir) \in DOMAIN r THEN InitDone(TRUE, f, r, FALSE)
    ELSE InitDone(TRUE,
                  IF exists(f, gitignore_path) THEN f
                  ELSE FsPut(f, gitignore_path, text_write(GITIGNORE_TEXT)),
                  (resolve(dir) :> NewRepo) @@ r,
                  TRUE)

init_repo_at(f, r, dir) == init_repo_in(f, r, dir, path_join(dir, GITIGNORE))

\* A repository made at the sandbox root whatever path is given
init_repo_at_root(f, r, path) ==
    IF ~config.git_enabled THEN InitDone(FALSE, f, r, FALSE)
    ELSE init_repo_at(f, r, config.abs_working_dir)

\* init_repo(path): the filesystem and repositories after it; ok is FALSE
\* when it raises GitError
init_repo(f, r, path) ==
    IF ~config.git_enabled THEN InitDone(FALSE, f, r, FALSE)
    ELSE init_repo_at(f, r, IF isfile(f, path) THEN dirname(path) ELSE path)

\* The files of the work tree of the repository at root: those below root
\* that no nested repository claims
WorkTree(f, r, root) ==
    {q \in DOMAIN f : /\ isfile(f, q)
                      /\ startswith(q, root \o <<SLASH>>)
                      /\ FindRoot(r, dirname(q)) = root}

\* The paths a pathspec names: the path itself and everything below it
Matches(path, q) == q = path \/ startswith(q, path \o <<SLASH>>)

\* The index after staging: present files take their work tree content,
\* tracked files that are gone leave the index
staged_index(f, index, present, gone) ==
    [q \in ((DOMAIN index) \ gone) \cup present |->
        IF q \in present THEN f[q].data ELSE index[q]]

git_add_matched(f, index, path, present, gone) ==
    IF present = {} /\ gone = {} /\ ~isdir(f, path)
    THEN [ok |-> FALSE, index |-> index]
    ELSE [ok |-> TRUE, index |-> staged_index(f, index, present, gone)]

git_add_present(f, index, path, present) ==
    git_add_matched(f, index, path, present,
        {q \in DOMAIN index : Matches(path, q) /\ q \notin present})

\* git add <path>: ok is FALSE when the pathspec matches nothing git knows
git_add(f, r, root, path) ==
    git_add_present(f, r[root].index, path,
        {q \in WorkTree(f, r, root) : Matches(path, q)})

\* repo.is_dirty(): index against HEAD, or a tracked file's work tree state
\* against the index; untracked files do not count
is_dirty(f, r, root, index) ==
    \/ index # HeadTree(r[root])
    \/ \E q \in DOMAIN index : ~isfile(f, q) \/ f[q].data # index[q]

\* repo.index.commit(message): a new commit of the index on the active branch
index_commit(repo, index, message) ==
    [repo EXCEPT
        !.commits = Append(@, [tree |-> index, message |-> message,
                               parent |-> HeadId(repo)]),
        !.index = index,
        !.branches = (repo.active :> (Len(repo.commits) + 1)) @@ @]

\* A commit message is kept as the template that built it and its fields
Message(template, operation, rel_path, text) ==
    [template |-> template, operation |-> operation, path |-> rel_path,
     message |-> text]

\* None, for an operation name or a message text
None == ""

\* message=None
NoMessage == Message("None", None, <<>>, None)

\* A message the caller wrote, passed through as it is
PlainMessage(text) ==
    IF text = None THEN NoMessage ELSE Message("{message}", None, <<>>, text)

\* The commit message commit_file ends up with
CommitMessage(message, operation, rel_path) ==
    IF message # NoMessage THEN message
    ELSE IF operation # None
    THEN Message("[{operation}] {path}", operation, rel_path, None)
    ELSE Message("Updated {path}", None, rel_path, None)

CommitDone(result, r, commit) ==
    [result |-> result, repos |-> r, commit |-> commit]

\* commit_file after git add: nothing is committed unless the repository is
\* dirty
commit_staged(f, r, root, added, message) ==
    IF ~added.ok THEN CommitDone("GitError", r, 0)
    ELSE IF ~is_dirty(f, r, root, added.index)
    THEN CommitDone("No changes to commit",
                    [r EXCEPT ![root].index = added.index], 0)
    ELSE CommitDone("committed",
                    [r EXCEPT ![root] = index_commit(@, added.index, message)],
                    Len(r[root].commits) + 1)

commit_file_in(f, r, path, message, operation, got) ==
    IF ~got.ok THEN CommitDone("GitError", r, 0)
    ELSE commit_staged(f, r, got.root,
             git_add(f, r, got.root, abspath(path)),
             CommitMessage(message, operation,
                           relpath(abspath(path), got.root)))

\* commit_file(path, message, operation): its return value (or the GitError)
\* and the repositories after it
commit_file(f, r, path, message, operation) ==
    commit_file_in(f, r, path, message, operation, get_repo(f, r, path))

\* A wrapper that hands the caller's message on without the prefix
UnprefixedMessage(operation, rel_path, commit_message) ==
    Message("{message}", None, <<>>, commit_message)

\* The message auto_commit_changes formats when the caller gave one
FormattedMessage(operation, rel_path, commit_message) ==
    Message("[{operation}] {path}: {message}", operation, rel_path,
            commit_message)

CheckpointDone(result, f, r, commit) ==
    [result |-> result, fs |-> f, repos |-> r, commit |-> commit]

\* get_repo raised: init_repo runs, and the local variable repo stays
\* unbound, so repo.working_dir raises UnboundLocalError, which the except
\* clause turns into "Auto-commit failed"
auto_commit_unbound(init) ==
    CheckpointDone("Auto-commit failed", init.fs, init.repos, 0)

\* commit_file has returned, or raised GitError
auto_commit_committed(f, done) ==
    IF done.result = "GitError"
    THEN CheckpointDone("Auto-commit failed", f, done.repos, 0)
    ELSE CheckpointDone(done.result, f, done.repos, done.commit)

auto_commit_in(f, r, path, operation, commit_message, got) ==
    IF ~got.ok
    THEN auto_commit_unbound(
             init_repo(f, r, IF isfile(f, path) THEN dirname(path) ELSE path))
    ELSE auto_commit_committed(f,
             commit_file(f, r, path,
                 IF commit_message # None
                 THEN FormattedMessage(operation,
                                       relpath(abspath(path), got.root),
                                       commit_message)
                 ELSE NoMessage,
                 operation))

\* A checkpoint wrapper that does not look at the configuration
auto_commit_always(f, r, path, operation, commit_message) ==
    auto_commit_in(f, r, path, operation, commit_message, get_repo(f, r, path))

\* auto_commit_changes(path, operation, commit_message): its return value and
\* the filesystem and repositories after it
auto_commit_changes(f, r, path, operation, commit_message) ==
    IF ~config.git_enabled \/ ~config.git_auto_commit
    THEN CheckpointDone("None", f, r, 0)
    ELSE auto_commit_in(f, r, path, operation, commit_message,
                        get_repo(f, r, path))

(***************************************************************************)
(* operations/file_ops.py, operations/dir_ops.py: the tool handlers.       *)
(* A call is a request (the tool arguments) moving through the handler's   *)
(* steps.  An optional argument is <<>> for None and <<v>> for the value v.*)
(***************************************************************************)
Request(verb, path) ==
    [verb |-> verb, path |-> path, dest_path |-> <<>>, paths |-> <<>>,
     content |-> <<>>, old_string |-> <<>>, new_string |-> <<>>,
     after_line |-> <<>>, before_line |-> <<>>, after_pattern |-> <<>>,
     recursive |-> FALSE, commit_message |-> None, branch_name |-> None,
     commit_id |-> 0, emoji_mapping |-> <<>>]

\* What a handler has decided once its checks are done: the step to go to
\* and the paths and bytes it will work with, or the ValueError it raises
Plan(pc, target, src, data, commit_path) ==
    [ok |-> TRUE, err |-> "", event |-> "none", pc |-> pc, target |-> target,
     src |-> src, data |-> data, commit_path |-> commit_path]

Refuse(err, event) ==
    [ok |-> FALSE, err |-> err, event |-> event, pc |-> "done", target |-> <<>>,
     src |-> <<>>, data |-> <<>>, commit_path |-> <<>>]

NUL == 0

Range(s) == {s[i] : i \in 1..Len(s)}

\* create_file up to the point where it starts changing the disk
create_file_checked(f, req, v) ==
    LET abs_path == v.path
    IN  IF ~v.ok THEN Refuse(v.err, v.event)
        ELSE IF exists(f, abs_path) THEN Refuse("already exists", "none")
        ELSE IF NUL \in Range(req.content) THEN Refuse("binary content", "none")
        ELSE IF Len(req.content) > MAX_FILE_SIZE THEN Refuse("too large", "none")
        ELSE Plan("mkdirs", abs_path, <<>>, text_write(req.content), abs_path)

create_file(f, req) ==
    create_file_checked(f, req,
        validate_operation(f, req.path, "create_file", FALSE, TRUE))

\* rewrite_file up to the point where it starts changing the disk
rewrite_file_checked(f, req, v) ==
    LET abs_path == v.path
    IN  IF ~v.ok THEN Refuse(v.err, v.event)
        ELSE IF NUL \in Range(req.content) THEN Refuse("binary content", "none")
        ELSE IF Len(req.content) > MAX_FILE_SIZE THEN Refuse("too large", "none")
        ELSE Plan("mkdirs", abs_path, <<>>, text_write(req.content), abs_path)

rewrite_file(f, req) ==
    rewrite_file_checked(f, req,
        validate_operation(f, req.path, "rewrite_file", TRUE, TRUE))

\* The shared body of update_file, replace_all_in_file and remove_from_file:
\* read the text, replace every occurrence of old_string, check the size
replace_in_file_checked(f, req, new_string, check_nul, check_size, v) ==
    LET abs_path == v.path
        read == text_read(read_bytes(f, abs_path))
        content == read.text
        updated_content == str_replace(content, req.old_string, new_string)
    IN  IF ~v.ok THEN Refuse(v.err, v.event)
        ELSE IF req.old_string = <<>> THEN Refuse("empty old content", "none")
        ELSE IF check_nul /\ NUL \in Range(new_string)
        THEN Refuse("binary content", "none")
        ELSE IF ~read.ok THEN Refuse("not a valid text file", "none")
        ELSE IF ~contains(content, req.old_string) THEN Refuse("not found in file", "none")
        ELSE IF check_size /\ Len(updated_content) > MAX_FILE_SIZE
        THEN Refuse("too large", "none")
        ELSE Plan("write_temp", abs_path, <<>>, text_write(updated_content), abs_path)

replace_in_file(f, req, operation, new_string, check_nul, check_size) ==
    replace_in_file_checked(f, req, new_string, check_nul, check_size,
        validate_operation(f, req.path, operation, TRUE, TRUE))

update_file(f, req) ==
    replace_in_file(f, req, "update_file", req.new_string, TRUE, TRUE)

replace_all_in_file(f, req) ==
    replace_in_file(f, req, "replace_all_in_file", req.new_string, TRUE, TRUE)

remove_from_file(f, req) ==
    replace_in_file(f, req, "remove_from_file", <<>>, FALSE, FALSE)

\* append_to_file up to the point where it starts changing the disk
append_to_file_checked(f, req, v) ==
    LET abs_path == v.path
    IN  IF ~v.ok THEN Refuse(v.err, v.event)
        ELSE IF req.content = <<>> THEN Refuse("empty content", "none")
        ELSE IF NUL \in Range(req.content) THEN Refuse("binary content", "none")
        ELSE IF ~exists(f, abs_path)
        THEN Plan("mkdirs", abs_path, <<>>, text_write(req.content), abs_path)
        ELSE IF getsize(f, abs_path) + Len(req.content) > MAX_FILE_SIZE
        THEN Refuse("too large", "none")
        ELSE Plan("append", abs_path, <<>>, text_write(req.content), abs_path)

append_to_file(f, req) ==
    append_to_file_checked(f, req,
        validate_operation(f, req.path, "append_to_file", TRUE, TRUE))

\* The index of the first line that contains the pattern, 0 when none does
first_match(lines, pattern) ==
    LET hits == {i \in 1..Len(lines) : contains(lines[i], pattern)}
    IN  IF hits = {} THEN 0 ELSE CHOOSE i \in hits : \A j \in hits : i <= j

\* insert_in_file up to the point where it starts changing the disk
insert_in_file_checked(f, req, v) ==
    LET abs_path == v.path
        position_methods == Len(req.after_line) + Len(req.before_line)
                            + Len(req.after_pattern)
        read == text_read(read_bytes(f, abs_path))
        lines == splitlines_keep(read.text)
        insertion_index ==
            IF req.after_line # <<>> THEN req.after_line[1] + 1
            ELSE IF req.before_line # <<>> THEN req.before_line[1]
            ELSE first_match(lines, req.after_pattern[1])
        content ==
            IF insertion_index < Len(lines) /\ ~endswith(req.content, <<LF>>)
            THEN req.content \o <<LF>> ELSE req.content
    IN  IF ~v.ok THEN Refuse(v.err, v.event)
        ELSE IF ~exists(f, abs_path) THEN Refuse("does not exist", "none")
        ELSE IF position_methods = 0 THEN Refuse("no position specifier", "none")
        ELSE IF position_methods > 1 THEN Refuse("several position specifiers", "none")
        ELSE IF req.content = <<>> THEN Refuse("empty content", "none")
        ELSE IF NUL \in Range(req.content) THEN Refuse("binary content", "none")
        ELSE IF ~read.ok THEN Refuse("not a valid text file", "none")
        ELSE IF req.after_line # <<>> /\ req.after_line[1] < 0
        THEN Refuse("after_line negative", "none")
        ELSE IF req.after_line # <<>> /\ req.after_line[1] >= Len(lines)
        THEN Refuse("after_line out of range", "none")
        ELSE IF req.before_line # <<>> /\ req.before_line[1] < 0
        THEN Refuse("before_line negative", "none")
        ELSE IF req.before_line # <<>> /\ req.before_line[1] > Len(lines)
        THEN Refuse("before_line out of range", "none")
        ELSE IF req.after_pattern # <<>> /\ insertion_index = 0
        THEN Refuse("pattern not found", "none")
        ELSE IF getsize(f, abs_path) + Len(req.content) > MAX_FILE_SIZE
        THEN Refuse("too large", "none")
        ELSE Plan("write_temp", abs_path, <<>>,
                  text_write(concat(list_insert(lines, insertion_index, content))),
                  abs_path)

insert_in_file(f, req) ==
    insert_in_file_checked(f, req,
        validate_operation(f, req.path, "insert_in_file", TRUE, TRUE))

\* copy_file and move_file up to the point where they start changing the
\* disk: the source is validated as itself, the destination as a create_file
transfer_file_checked(f, vs, vd) ==
    LET source_abs_path == vs.path
        dest_abs_path == vd.path
    IN  IF ~vs.ok THEN Refuse(vs.err, vs.event)
        ELSE IF ~vd.ok THEN Refuse(vd.err, vd.event)
        ELSE IF ~isfile(f, source_abs_path)
        THEN Refuse("source is not a file", "none")
        ELSE IF exists(f, dest_abs_path) THEN Refuse("already exists", "none")
        ELSE Plan("mkdirs", dest_abs_path, source_abs_path, <<>>, dest_abs_path)

transfer_file(f, req, operation) ==
    transfer_file_checked(f,
        validate_operation(f, req.path, operation, FALSE, TRUE),
        validate_operation(f, req.dest_path, "create_file", FALSE, FALSE))

copy_file(f, req) == transfer_file(f, req, "copy_file")

move_file(f, req) == transfer_file(f, req, "move_file")

\* delete_file up to os.remove; the checkpoint is taken on the directory
delete_file_checked(f, req, v) ==
    LET abs_path == v.path
    IN  IF ~v.ok THEN Refuse(v.err, v.event)
        ELSE IF ~exists(f, abs_path) THEN Refuse("not found", "none")
        ELSE IF isdir(f, abs_path) THEN Refuse("is a directory", "none")
        ELSE Plan("remove", abs_path, <<>>, <<>>, dirname(abs_path))

delete_file(f, req) ==
    delete_file_checked(f, req,
        validate_operation(f, req.path, "delete_file", FALSE, TRUE))

\* delete_multiple_files: only the empty list is refused up front
delete_multiple_files(f, req) ==
    IF req.paths = <<>> THEN Refuse("no file paths", "none")
    ELSE Plan("delete_many", <<>>, <<>>, <<>>, <<>>)

\* One round of the loop of delete_multiple_files: the path is deleted when
\* it validates and is a file, and is skipped otherwise
delete_one(f, v) == IF v.ok /\ isfile(f, v.path) THEN FsDel(f, v.path) ELSE f
deleted_one(f, v) == IF v.ok /\ isfile(f, v.path) THEN <<v.path>> ELSE <<>>

RECURSIVE delete_loop(_, _, _)
\* The loop of delete_multiple_files over the paths: the filesystem after it
\* and the files deleted, in order
delete_loop(f, paths, deleted_files) ==
    IF paths = <<>> THEN [fs |-> f, deleted_files |-> deleted_files]
    ELSE delete_loop(
             delete_one(f, validate_operation(f, Head(paths), "delete_file",
                                              FALSE, TRUE)),
             Tail(paths),
             deleted_files
                 \o deleted_one(f, validate_operation(f, Head(paths),
                                                      "delete_file", FALSE, TRUE)))

\* replace_all_emojis_in_files: only the empty list is refused up front
replace_all_emojis_in_files(f, req) ==
    IF req.paths = <<>> THEN Refuse("no file paths", "none")
    ELSE Plan("replace_emojis", <<>>, <<>>, <<>>, <<>>)

\* U+26A1 and U+1F527, and the texts "[FAST]" and "[API]"
ZAP == <<9889>>
WRENCH == <<128295>>
FAST == <<91, 70, 65, 83, 84, 93>>
API == <<91, 65, 80, 73, 93>>

\* default_emoji_mapping, cut to two of its entries
default_emoji_mapping == (ZAP :> FAST) @@ (WRENCH :> API)

\* active_mapping: the default mapping updated with the caller's mapping
active_mapping(emoji_mapping) == emoji_mapping @@ default_emoji_mapping

RECURSIVE replace_emojis(_, _, _)
\* The loop over active_mapping.items(): every emoji of the mapping that
\* occurs in the content is replaced
replace_emojis(content, mapping, keys) ==
    IF keys = {} THEN content
    ELSE LET emoji_char == CHOOSE k \in keys : TRUE
         IN  replace_emojis(str_replace(content, emoji_char, mapping[emoji_char]),
                            mapping, keys \ {emoji_char})

\* What one round of the loop has done with its file
EmojiDone(f, successful, processed) ==
    [fs |-> f, successful |-> successful, processed |-> processed]

\* One round of the loop of replace_all_emojis_in_files, the path validated:
\* the file is read as UTF-8 text and, when an emoji of the mapping occurs
\* in it, rewritten through a temp file
emoji_one(f, v, mapping, temp_path) ==
    LET abs_path == v.path
        read == text_read(read_bytes(f, abs_path))
        content == replace_emojis(read.text, mapping, DOMAIN mapping)
    IN  IF ~v.ok THEN EmojiDone(f, FALSE, FALSE)
        ELSE IF ~exists(f, abs_path) THEN EmojiDone(f, FALSE, FALSE)
        ELSE IF ~isfile(f, abs_path) THEN EmojiDone(f, FALSE, FALSE)
        ELSE IF ~read.ok THEN EmojiDone(f, FALSE, FALSE)
        ELSE IF \A k \in DOMAIN mapping : ~contains(read.text, k)
        THEN EmojiDone(f, TRUE, FALSE)
        ELSE IF Len(content) > MAX_FILE_SIZE THEN EmojiDone(f, FALSE, FALSE)
        ELSE IF isdir(f, temp_path) THEN EmojiDone(f, FALSE, FALSE)
        ELSE EmojiDone(FsPut(FsDel(f, temp_path), abs_path, text_write(content)),
                       TRUE, TRUE)

\* The lists of the loop after a round on file_path
emoji_round(acc, file_path, abs_path, one) ==
    [fs |-> one.fs,
     successful_files |->
         acc.successful_files \o (IF one.successful THEN <<file_path>> ELSE <<>>),
     failed_files |->
         acc.failed_files \o (IF one.successful THEN <<>> ELSE <<file_path>>),
     processed_file_paths |->
         acc.processed_file_paths \o (IF one.processed THEN <<abs_path>> ELSE <<>>)]

\* create_dir up to os.makedirs; an existing directory is reported, not made
create_dir_checked(f, req, v) ==
    LET abs_path == v.path
    IN  IF ~v.ok THEN Refuse(v.err, v.event)
        ELSE IF isdir(f, abs_path) THEN Plan("done", abs_path, <<>>, <<>>, <<>>)
        ELSE IF exists(f, abs_path) THEN Refuse("a file already exists", "none")
        ELSE Plan("makedirs", abs_path, <<>>, <<>>, abs_path)

create_dir(f, req) ==
    create_dir_checked(f, req,
        validate_operation(f, req.path, "create_dir", FALSE, TRUE))

\* delete_dir up to the removal; the checkpoint is taken on the parent
delete_dir_checked(f, req, v) ==
    LET abs_path == v.path
    IN  IF ~v.ok THEN Refuse(v.err, v.event)
        ELSE IF ~exists(f, abs_path) THEN Refuse("not found", "none")
        ELSE IF ~isdir(f, abs_path) THEN Refuse("is a file", "none")
        ELSE IF ~req.recursive /\ Below(f, abs_path) # {}
        THEN Refuse("directory not empty", "none")
        ELSE Plan("rmdir", abs_path, <<>>, <<>>, dirname(abs_path))

delete_dir(f, req) ==
    delete_dir_checked(f, req,
        validate_operation(f, req.path, "delete_dir", FALSE, TRUE))

\* The verbs that go through the steps below
StepVerbs ==
    {"create_file", "update_file", "rewrite_file", "remove_from_file",
     "append_to_file", "insert_in_file", "replace_all_in_file", "copy_file",
     "move_file", "delete_file", "delete_multiple_files", "create_dir",
     "delete_dir", "replace_all_emojis_in_files"}

\* The handler registered for the verb, run up to its first disk change
Handler(f, req) ==
    CASE req.verb = "create_file" -> create_file(f, req)
      [] req.verb = "update_file" -> update_file(f, req)
      [] req.verb = "rewrite_file" -> rewrite_file(f, req)
      [] req.verb = "remove_from_file" -> remove_from_file(f, req)
      [] req.verb = "append_to_file" -> append_to_file(f, req)
      [] req.verb = "insert_in_file" -> insert_in_file(f, req)
      [] req.verb = "replace_all_in_file" -> replace_all_in_file(f, req)
      [] req.verb = "copy_file" -> copy_file(f, req)
      [] req.verb = "move_file" -> move_file(f, req)
      [] req.verb = "delete_file" -> delete_file(f, req)
      [] req.verb = "delete_multiple_files" -> delete_multiple_files(f, req)
      [] req.verb = "create_dir" -> create_dir(f, req)
      [] req.verb = "delete_dir" -> delete_dir(f, req)
      [] req.verb = "replace_all_emojis_in_files"
            -> replace_all_emojis_in_files(f, req)

(***************************************************************************)
(* The state of a call in flight.                                          *)
(***************************************************************************)
NoSum == <<>>

\* What the caller gets back: status is "pending" until the handler returns
Pending ==
    [status |-> "pending", err |-> "", checksum |-> NoSum, content |-> <<>>,
     commit |-> "None"]

\* The call ends with an error: the ValueError or OSError the handler raises
Failure(err) ==
    [status |-> "error", err |-> err, checksum |-> NoSum, content |-> <<>>,
     commit |-> "None"]

\* A success message, with the checksum and the checkpoint line it reports
Success(checksum, content, commit) ==
    [status |-> "ok", err |-> "", checksum |-> checksum, content |-> content,
     commit |-> commit]

NoSource == [size |-> 0, checksum |-> NoSum]

IdleCall ==
    [pc |-> "idle", req |-> Request("none", <<>>), target |-> <<>>, src |-> <<>>,
     data |-> <<>>, commit_path |-> <<>>, temp_path |-> <<>>,
     source |-> NoSource, pre_fs |-> <<>>, pre_repos |-> <<>>,
     event |-> "none", successful_files |-> <<>>, failed_files |-> <<>>,
     result |-> Pending]

\* os.getpid() and int(time.time()) as they are formatted into a temp name;
\* the server is one process, the clock counts whole seconds
PID == "7"
Digits == <<"0", "1", "2", "3", "4", "5", "6", "7", "8", "9">>
str(n) == Digits[n + 1]

\* f"{abs_path}.tmp.{os.getpid()}.{int(time.time())}"
temp_name(abs_path, t) ==
    abs_path \o <<".", "t", "m", "p", ".", PID, ".", str(t)>>

(***************************************************************************)
(* The steps of a call.  p is the call's slot; the sets named outcomes say *)
(* which results of a system call a specification lets happen: "ok", or a  *)
(* failure the operating system can produce at that point (an open that    *)
(* fails, a write that stops part-way, a rename that is refused).          *)
(***************************************************************************)
Goto(p, pc) == [calls EXCEPT ![p].pc = pc]

Fail(p, err) == [calls EXCEPT ![p].pc = "done", ![p].result = Failure(err)]

\* The call's state once the handler has made its plan
Entered(req, plan) ==
    [pc |-> plan.pc, req |-> req, target |-> plan.target, src |-> plan.src,
     data |-> plan.data, commit_path |-> plan.commit_path, temp_path |-> <<>>,
     source |-> NoSource, pre_fs |-> fs, pre_repos |-> repos,
     event |-> plan.event, successful_files |-> <<>>, failed_files |-> <<>>,
     result |-> IF ~plan.ok THEN Failure(plan.err)
                ELSE IF plan.pc = "done" THEN Success(NoSum, <<>>, "None")
                ELSE Pending]

\* The handler is entered: validation and the checks that precede any change
Begin(p, req) ==
    /\ calls[p].pc = "idle"
    /\ req.verb \in StepVerbs
    /\ calls' = [calls EXCEPT ![p] = Entered(req, Handler(fs, req))]
    /\ ncalls' = ncalls + 1
    /\ UNCHANGED <<envVars, fs, repos, pathVars, classVars, boundVars>>

\* The step after the parent directory is in place
AfterMkdirs(verb) ==
    CASE verb = "append_to_file" -> "append"
      [] verb = "move_file" -> "rename"
      [] OTHER -> "write_temp"

\* Parent directories are created when missing; copy_file and move_file then
\* take the size and checksum of the source
Mkdirs(p) ==
    LET c == calls[p]
        directory == dirname(c.target)
        made == IF exists(fs, directory) THEN [ok |-> TRUE, fs |-> fs]
                ELSE makedirs(fs, directory)
        transfer == c.req.verb \in {"copy_file", "move_file"}
    IN  /\ c.pc = "mkdirs"
        /\ fs' = made.fs
        /\ calls' =
              IF ~made.ok THEN Fail(p, "OSError")
              ELSE IF transfer /\ ~isfile(fs, c.src) THEN Fail(p, "OSError")
              ELSE [calls EXCEPT
                      ![p].pc = AfterMkdirs(c.req.verb),
                      ![p].source =
                          IF transfer
                          THEN [size |-> getsize(fs, c.src),
                                checksum |-> generate_checksum(fs, c.src)]
                          ELSE NoSource]
        /\ UNCHANGED <<envVars, repos, ncalls, pathVars, classVars, boundVars>>

\* open(temp_path, 'w') and the write of the whole new content; copy_file
\* reads the source here
WriteTemp(p, outcomes) ==
    LET c == calls[p]
        temp_path == temp_name(c.target, now)
        copying == c.req.verb = "copy_file"
        can_open == /\ isdir(fs, dirname(temp_path))
                    /\ ~isdir(fs, temp_path)
                    /\ copying => isfile(fs, c.src)
        \* the temp file is opened for writing, and so emptied, before the
        \* source is read: a source that is the temp path itself reads as empty
        data == IF ~copying THEN c.data
                ELSE IF resolve(temp_path) = resolve(c.src) THEN <<>>
                ELSE read_bytes(fs, c.src)
    IN  /\ c.pc = "write_temp"
        /\ \E outcome \in outcomes :
              \/ /\ outcome = "ok"
                 /\ can_open
                 /\ fs' = FsPut(fs, temp_path, data)
                 /\ calls' = [calls EXCEPT ![p].pc = "replace",
                                           ![p].temp_path = temp_path]
              \/ /\ outcome = "fail_open" \/ ~can_open
                 /\ fs' = fs
                 /\ calls' = [calls EXCEPT ![p].pc = "cleanup",
                                           ![p].temp_path = temp_path]
              \/ /\ outcome = "partial"
                 /\ can_open
                 /\ \E k \in 0..(Len(data) - 1) :
                       fs' = FsPut(fs, temp_path, SubSeq(data, 1, k))
                 /\ calls' = [calls EXCEPT ![p].pc = "cleanup",
                                           ![p].temp_path = temp_path]
        /\ UNCHANGED <<envVars, repos, ncalls, pathVars, classVars, boundVars>>

\* os.replace(temp_path, abs_path)
Replace(p, outcomes) ==
    LET c == calls[p]
        can_replace == /\ isfile(fs, c.temp_path)
                       /\ ~isdir(fs, c.target)
                       /\ isdir(fs, dirname(c.target))
    IN  /\ c.pc = "replace"
        /\ \E outcome \in outcomes :
              \/ /\ outcome = "ok"
                 /\ can_replace
                 /\ fs' = FsDel(FsPut(fs, c.target, read_bytes(fs, c.temp_path)),
                                c.temp_path)
                 /\ calls' = Goto(p, IF c.req.verb = "copy_file" THEN "verify"
                                     ELSE "finish")
              \/ /\ outcome = "fail" \/ ~can_replace
                 /\ fs' = fs
                 /\ calls' = Goto(p, "cleanup")
        /\ UNCHANGED <<envVars, repos, ncalls, pathVars, classVars, boundVars>>

\* An except branch that raises ValueError and leaves the temp file behind
Abandon(p) ==
    /\ calls[p].pc = "cleanup"
    /\ calls' = Fail(p, "Failed to write file")
    /\ UNCHANGED <<envVars, fs, repos, ncalls, pathVars, classVars, boundVars>>

\* The except branch: the temp file is removed when it exists (os.remove is
\* taken to succeed) and ValueError is raised
Cleanup(p) ==
    LET c == calls[p]
    IN  /\ c.pc = "cleanup"
        /\ fs' = IF exists(fs, c.temp_path) THEN FsDel(fs, c.temp_path) ELSE fs
        /\ calls' = Fail(p, "Failed to write file")
        /\ UNCHANGED <<envVars, repos, ncalls, pathVars, classVars, boundVars>>

\* copy_file: the destination is re-read and compared with what was taken
\* from the source; on a mismatch the destination is removed
Verify(p) ==
    LET c == calls[p]
        dest == [size |-> getsize(fs, c.target),
                 checksum |-> generate_checksum(fs, c.target)]
    IN  /\ c.pc = "verify"
        /\ IF ~isfile(fs, c.target)
           THEN fs' = fs /\ calls' = Fail(p, "OSError")
           ELSE IF dest # c.source
           THEN /\ fs' = FsDel(fs, c.target)
                /\ calls' = Fail(p, "Copy verification failed")
           ELSE fs' = fs /\ calls' = Goto(p, "finish")
        /\ UNCHANGED <<envVars, repos, ncalls, pathVars, classVars, boundVars>>

\* append_to_file: open(abs_path, 'a') and the write, on the target itself
AppendStep(p, outcomes) ==
    LET c == calls[p]
        can_open == isdir(fs, dirname(c.target)) /\ ~isdir(fs, c.target)
        old == IF isfile(fs, c.target) THEN read_bytes(fs, c.target) ELSE <<>>
    IN  /\ c.pc = "append"
        /\ \E outcome \in outcomes :
              \/ /\ outcome = "ok"
                 /\ can_open
                 /\ fs' = FsPut(fs, c.target, old \o c.data)
                 /\ calls' = Goto(p, "finish")
              \/ /\ outcome = "fail_open" \/ ~can_open
                 /\ fs' = fs
                 /\ calls' = Fail(p, "Failed to append to file")
              \/ /\ outcome = "partial"
                 /\ can_open
                 /\ \E k \in 0..(Len(c.data) - 1) :
                       fs' = FsPut(fs, c.target, old \o SubSeq(c.data, 1, k))
                 /\ calls' = Fail(p, "Failed to append to file")
        /\ UNCHANGED <<envVars, repos, ncalls, pathVars, classVars, boundVars>>

\* delete_file: os.remove(abs_path)
Remove(p) ==
    LET c == calls[p]
    IN  /\ c.pc = "remove"
        /\ IF isfile(fs, c.target)
           THEN fs' = FsDel(fs, c.target) /\ calls' = Goto(p, "finish")
           ELSE fs' = fs /\ calls' = Fail(p, "Failed to delete file")
        /\ UNCHANGED <<envVars, repos, ncalls, pathVars, classVars, boundVars>>

\* delete_multiple_files: the loop over the paths; the checkpoint is taken
\* on the directory of the first file deleted, and skipped when none was
DeleteMany(p) ==
    LET c == calls[p]
        done == delete_loop(fs, c.req.paths, <<>>)
    IN  /\ c.pc = "delete_many"
        /\ fs' = done.fs
        /\ calls' = [calls EXCEPT
                       ![p].pc = "finish",
                       ![p].commit_path =
                           IF done.deleted_files = <<>> THEN <<>>
                           ELSE dirname(done.deleted_files[1])]
        /\ UNCHANGED <<envVars, repos, ncalls, pathVars, classVars, boundVars>>

emoji_validated(acc, file_path, v, mapping, t) ==
    emoji_round(acc, file_path, v.path,
                emoji_one(acc.fs, v, mapping, temp_name(v.path, t)))

RECURSIVE emoji_loop(_, _, _, _)
\* The loop of replace_all_emojis_in_files over file_paths at clock second t
emoji_loop(acc, file_paths, mapping, t) ==
    IF file_paths = <<>> THEN acc
    ELSE emoji_loop(
             emoji_validated(acc, Head(file_paths),
                 validate_operation(acc.fs, Head(file_paths),
                                    "replace_all_emojis_in_files", TRUE, TRUE),
                 mapping, t),
             Tail(file_paths), mapping, t)

\* replace_all_emojis_in_files: the loop over the files; the checkpoint is
\* taken on the directory of the first file rewritten, and skipped when none
\* was
ReplaceEmojis(p) ==
    LET c == calls[p]
        done == emoji_loop([fs |-> fs, successful_files |-> <<>>,
                            failed_files |-> <<>>, processed_file_paths |-> <<>>],
                           c.req.paths, active_mapping(c.req.emoji_mapping), now)
    IN  /\ c.pc = "replace_emojis"
        /\ fs' = done.fs
        /\ calls' = [calls EXCEPT
                       ![p].pc = "finish",
                       ![p].successful_files = done.successful_files,
                       ![p].failed_files = done.failed_files,
                       ![p].commit_path =
                           IF done.processed_file_paths = <<>> THEN <<>>
                           ELSE dirname(done.processed_file_paths[1])]
        /\ UNCHANGED <<envVars, repos, ncalls, pathVars, classVars, boundVars>>

\* create_dir: os.makedirs(abs_path)
MakeDir(p) ==
    LET c == calls[p]
        made == makedirs(fs, c.target)
    IN  /\ c.pc = "makedirs"
        /\ fs' = made.fs
        /\ calls' = IF made.ok THEN Goto(p, "finish")
                    ELSE Fail(p, "Failed to create directory")
        /\ UNCHANGED <<envVars, repos, ncalls, pathVars, classVars, boundVars>>

\* delete_dir: shutil.rmtree(abs_path) or os.rmdir(abs_path)
RemoveDir(p) ==
    LET c == calls[p]
        can_remove == isdir(fs, c.target)
                      /\ (c.req.recursive \/ Below(fs, c.target) = {})
    IN  /\ c.pc = "rmdir"
        /\ IF can_remove
           THEN fs' = FsDelTree(fs, c.target) /\ calls' = Goto(p, "finish")
           ELSE fs' = fs /\ calls' = Fail(p, "Failed to delete directory")
        /\ UNCHANGED <<envVars, repos, ncalls, pathVars, classVars, boundVars>>

\* move_file: os.rename(source, dest); an OSError leads to the fallback
Rename(p, outcomes) ==
    LET c == calls[p]
        can_rename == /\ isfile(fs, c.src)
                      /\ isdir(fs, dirname(c.target))
                      /\ ~isdir(fs, c.target)
    IN  /\ c.pc = "rename"
        /\ \E outcome \in outcomes :
              \/ /\ outcome = "ok"
                 /\ can_rename
                 /\ fs' = FsDel(FsPut(fs, c.target, read_bytes(fs, c.src)), c.src)
                 /\ calls' = Goto(p, "finish")
              \/ /\ outcome = "fail" \/ ~can_rename
                 /\ fs' = fs
                 /\ calls' = Goto(p, "fallback")
        /\ UNCHANGED <<envVars, repos, ncalls, pathVars, classVars, boundVars>>

\* A fallback that keeps whatever reached the destination when the copy
\* stops, and removes the source without comparing sizes and checksums
MoveFallbackUnverified(p, outcomes) ==
    LET c == calls[p]
        data == read_bytes(fs, c.src)
    IN  /\ c.pc = "fallback"
        /\ isfile(fs, c.src)
        /\ \E outcome \in outcomes :
              \/ /\ outcome = "ok"
                 /\ fs' = FsDel(FsPut(fs, c.target, data), c.src)
                 /\ calls' = Goto(p, "finish")
              \/ /\ outcome = "fail_open"
                 /\ fs' = fs
                 /\ calls' = Fail(p, "Failed to move file")
              \/ /\ outcome = "partial"
                 /\ \E k \in 0..(Len(data) - 1) :
                       fs' = FsDel(FsPut(fs, c.target, SubSeq(data, 1, k)),
                                   c.src)
                 /\ calls' = Goto(p, "finish")
        /\ UNCHANGED <<envVars, repos, ncalls, pathVars, classVars, boundVars>>

\* move_file, fallback: the source is copied onto the destination path
\* itself, checked against the size and checksum taken before, and removed;
\* any exception on the way removes the destination when it exists
MoveFallback(p, outcomes) ==
    LET c == calls[p]
        can_copy == /\ isfile(fs, c.src)
                    /\ isdir(fs, dirname(c.target))
                    /\ ~isdir(fs, c.target)
        data == read_bytes(fs, c.src)
        copied == [size |-> Len(data), checksum |-> sha256(data)]
        without_dest == IF isfile(fs, c.target) THEN FsDel(fs, c.target) ELSE fs
    IN  /\ c.pc = "fallback"
        /\ \E outcome \in outcomes :
              \/ /\ outcome = "ok"
                 /\ can_copy
                 /\ IF copied = c.source
                    THEN /\ fs' = FsDel(FsPut(fs, c.target, data), c.src)
                         /\ calls' = Goto(p, "finish")
                    ELSE /\ fs' = without_dest
                         /\ calls' = Fail(p, "Failed to move file")
              \/ /\ outcome # "ok" \/ ~can_copy
                 /\ fs' = without_dest
                 /\ calls' = Fail(p, "Failed to move file")
        /\ UNCHANGED <<envVars, repos, ncalls, pathVars, classVars, boundVars>>

\* The verbs that re-hash the target before they report success
HashingVerbs ==
    {"create_file", "update_file", "rewrite_file", "remove_from_file",
     "append_to_file", "insert_in_file", "replace_all_in_file"}

\* A handler tail that lets a failed checkpoint fail the call
CheckpointFatal(p, checksum, checkpoint) ==
    /\ fs' = checkpoint.fs
    /\ repos' = checkpoint.repos
    /\ calls' = IF checkpoint.result = "Auto-commit failed"
                THEN Fail(p, "GitError")
                ELSE [calls EXCEPT ![p].pc = "done",
                                   ![p].result = Success(checksum, <<>>,
                                                         checkpoint.result)]

\* The tail of every mutating handler: the new checksum is taken, then
\* auto_commit_changes runs and its line is appended to the success message
Checkpointed(p, checksum, checkpoint) ==
    /\ fs' = checkpoint.fs
    /\ repos' = checkpoint.repos
    /\ calls' = [calls EXCEPT ![p].pc = "done",
                              ![p].result = Success(checksum, <<>>,
                                                    checkpoint.result)]

Finish(p) ==
    LET c == calls[p]
        checksum == IF c.req.verb \in HashingVerbs
                    THEN generate_checksum(fs, c.target)
                    ELSE c.source.checksum
    IN  /\ c.pc = "finish"
        /\ IF c.req.verb \in HashingVerbs /\ ~isfile(fs, c.target)
           THEN /\ calls' = Fail(p, "OSError")
                /\ UNCHANGED <<fs, repos>>
           ELSE IF c.commit_path = <<>>
           THEN /\ calls' = [calls EXCEPT ![p].pc = "done",
                                ![p].result = Success(checksum, <<>>, "None")]
                /\ UNCHANGED <<fs, repos>>
           ELSE Checkpointed(p, checksum,
                    auto_commit_changes(fs, repos, c.commit_path, c.req.verb,
                                        c.req.commit_message))
        /\ UNCHANGED <<envVars, ncalls, pathVars, classVars, boundVars>>

\* The tail of a mutating handler when a git call inside auto_commit_changes
\* raises (a locked index, a failing git binary): the except clause returns
\* "Auto-commit failed: ..." and the repositories are as they were
CheckpointFails(p) ==
    LET c == calls[p]
    IN  /\ c.pc = "finish"
        /\ c.commit_path # <<>>
        /\ config.git_enabled /\ config.git_auto_commit
        /\ c.req.verb \in HashingVerbs => isfile(fs, c.target)
        /\ Checkpointed(p,
                        IF c.req.verb \in HashingVerbs
                        THEN generate_checksum(fs, c.target)
                        ELSE c.source.checksum,
                        CheckpointDone("Auto-commit failed", fs, repos, 0))
        /\ UNCHANGED <<envVars, ncalls, pathVars, classVars, boundVars>>

\* The result has been delivered; the slot is free for the next call
Return(p) ==
    /\ calls[p].pc = "done"
    /\ calls' = [calls EXCEPT ![p] = IdleCall]
    /\ UNCHANGED <<envVars, fs, repos, ncalls, pathVars, classVars, boundVars>>

\* read_file(path) with no line range: the checksum and the text returned
read_file_checked(f, req, v) ==
    LET abs_path == v.path
        read == text_read(read_bytes(f, abs_path))
    IN  IF ~v.ok THEN Failure(v.err)
        ELSE IF ~isfile(f, abs_path) THEN Failure("OSError")
        ELSE IF ~read.ok THEN Failure("Cannot read binary file")
        ELSE Success(generate_checksum(f, abs_path), read.text, "None")

read_file(f, req) ==
    read_file_checked(f, req,
        validate_operation(f, req.path, "read_file", TRUE, TRUE))

\* The call's state once read_file has run
ReadReturn(req, v) ==
    [IdleCall EXCEPT !.pc = "done", !.req = req, !.target = v.path,
                     !.pre_fs = fs, !.pre_repos = repos, !.event = v.event,
                     !.result = read_file_checked(fs, req, v)]

\* A read_file call; it is one step, nothing on disk changes
ReadFile(p, req) ==
    /\ calls[p].pc = "idle"
    /\ req.verb = "read_file"
    /\ calls' = [calls EXCEPT ![p] =
                    ReadReturn(req, validate_operation(fs, req.path, "read_file",
                                                       TRUE, TRUE))]
    /\ ncalls' = ncalls + 1
    /\ UNCHANGED <<envVars, fs, repos, pathVars, classVars, boundVars>>

(***************************************************************************)
(* operations/version_ops.py: the repository verbs.                        *)
(***************************************************************************)
GitDone(ok, f, r, result) == [ok |-> ok, fs |-> f, repos |-> r, result |-> result]

create_branch_in(f, r, root, branch_name) ==
    IF branch_name \in DOMAIN r[root].branches
    THEN GitDone(FALSE, f, r, "Branch already exists")
    ELSE IF HeadId(r[root]) = 0
    THEN GitDone(FALSE, f, r, "Failed to create branch")
    ELSE GitDone(TRUE, f,
                 [r EXCEPT ![root].branches =
                               (branch_name :> HeadId(r[root])) @@ @],
                 "created branch")

create_branch_got(f, r, got, branch_name) ==
    IF ~got.ok THEN GitDone(FALSE, f, r, got.err)
    ELSE create_branch_in(f, r, got.root, branch_name)

\* create_branch(path, branch_name): git branch <name> at HEAD
create_branch(f, r, path, branch_name) ==
    create_branch_got(f, r, get_repo(f, r, path), branch_name)

\* The work tree after a checkout from the tree old to the tree new
checked_out(f, old, new) ==
    [q \in DOMAIN new |-> File(new[q])]
        @@ [q \in DOMAIN f \ (DOMAIN old \ DOMAIN new) |-> f[q]]

checkout_tree(f, r, root, branch_name, old, new) ==
    IF \E q \in DOMAIN new \ DOMAIN old : exists(f, q)
    THEN GitDone(FALSE, f, r, "Failed to switch branch")
    ELSE GitDone(TRUE, checked_out(f, old, new),
                 [r EXCEPT ![root].active = branch_name, ![root].index = new],
                 "switched branch")

\* git checkout <branch> in a clean work tree: tracked files take the state
\* of the branch's commit; git refuses to overwrite an untracked file.
\* Directories the checkout empties are left standing here.
checkout(f, r, root, branch_name) ==
    checkout_tree(f, r, root, branch_name, r[root].index,
                  r[root].commits[r[root].branches[branch_name]].tree)

switch_branch_got(f, r, got, branch_name) ==
    IF ~got.ok THEN GitDone(FALSE, f, r, got.err)
    ELSE IF branch_name \notin DOMAIN r[got.root].branches
    THEN GitDone(FALSE, f, r, "Branch does not exist")
    ELSE IF is_dirty(f, r, got.root, r[got.root].index)
    THEN GitDone(FALSE, f, r, "uncommitted changes")
    ELSE checkout(f, r, got.root, branch_name)

\* switch_branch(path, branch_name)
switch_branch(f, r, path, branch_name) ==
    switch_branch_got(f, r, get_repo(f, r, path), branch_name)

\* revert_to_commit once the blob is known: the file is checked out of the
\* commit, staged, and committed when that left the repository dirty
revert_blob(f, r, root, path, index) ==
    IF ~is_dirty(f, [r EXCEPT ![root].index = index], root, index)
    THEN GitDone(TRUE, f, [r EXCEPT ![root].index = index],
                 "already at the state")
    ELSE GitDone(TRUE, f,
                 [r EXCEPT ![root] =
                     index_commit(@, index,
                         Message("Reverted {path} to state at {commit_id}",
                                 None, relpath(path, root), None))],
                 "Reverted")

revert_in(f, r, root, path, commit_id) ==
    IF commit_id \notin 1..Len(r[root].commits)
    THEN GitDone(FALSE, f, r, "Invalid commit reference")
    ELSE IF path \notin DOMAIN r[root].commits[commit_id].tree
    THEN GitDone(FALSE, f, r, "File does not exist in commit")
    ELSE revert_blob(FsPut(f, path, r[root].commits[commit_id].tree[path]),
                     r, root, path,
                     (path :> r[root].commits[commit_id].tree[path])
                         @@ r[root].index)

revert_got(f, r, got, path, commit_id) ==
    IF ~got.ok THEN GitDone(FALSE, f, r, got.err)
    ELSE revert_in(f, r, got.root, abspath(path), commit_id)

\* revert_to_commit(path, commit_id)
revert_to_commit(f, r, path, commit_id) ==
    revert_got(f, r, get_repo(f, r, path), path, commit_id)

GitVerbs ==
    {"git_init", "git_commit", "git_revert", "git_branch_create",
     "git_branch_switch"}

git_init(f, r, init) == GitDone(init.ok, init.fs, init.repos, "init")

git_commit(f, done) ==
    GitDone(done.result # "GitError", f, done.repos, done.result)

\* The repository verb's handler, after validate_operation has passed
git_verb(f, r, req, abs_path) ==
    CASE req.verb = "git_init" -> git_init(f, r, init_repo(f, r, abs_path))
      [] req.verb = "git_commit" ->
           git_commit(f, commit_file(f, r, abs_path,
                                     PlainMessage(req.commit_message), None))
      [] req.verb = "git_revert" ->
           revert_to_commit(f, r, abs_path, req.commit_id)
      [] req.verb = "git_branch_create" ->
           IF req.branch_name = None
           THEN GitDone(FALSE, f, r, "Branch name is required")
           ELSE create_branch(f, r, abs_path, req.branch_name)
      [] req.verb = "git_branch_switch" ->
           IF req.branch_name = None
           THEN GitDone(FALSE, f, r, "Branch name is required")
           ELSE switch_branch(f, r, abs_path, req.branch_name)

\* The repository verb's handler: validate_operation, then the verb
git_handler(f, r, req, v) ==
    IF ~v.ok THEN GitDone(FALSE, f, r, v.err)
    ELSE git_verb(f, r, req, v.path)

\* The state after a repository verb has run
GitReturn(p, req, v, done) ==
    /\ fs' = done.fs
    /\ repos' = done.repos
    /\ calls' = [calls EXCEPT ![p] =
                    [IdleCall EXCEPT
                        !.pc = "done", !.req = req, !.target = v.path,
                        !.pre_fs = fs, !.pre_repos = repos, !.event = v.event,
                        !.result = IF ~done.ok THEN Failure(done.result)
                                   ELSE Success(NoSum, <<>>, done.result)]]

GitValidated(p, req, v) == GitReturn(p, req, v, git_handler(fs, repos, req, v))

\* git_init, git_commit, git_revert, git_branch_create, git_branch_switch:
\* each is one step
GitCall(p, req) ==
    /\ calls[p].pc = "idle"
    /\ req.verb \in GitVerbs
    /\ GitValidated(p, req,
                    validate_operation(fs, req.path, req.verb, FALSE, TRUE))
    /\ ncalls' = ncalls + 1
    /\ UNCHANGED <<envVars, pathVars, classVars, boundVars>>

(***************************************************************************)
(* The error boundary (utils/security.py) and the registration of the      *)
(* tools.  A function is known by the tool it implements and by whether    *)
(* the try/except of with_error_handling is around it.  An invocation ends *)
(* as its body ends: "return", or the type of the exception it raises.     *)
(***************************************************************************)
NoReply == [tool |-> "none", body |-> "none", how |-> "none", text |-> <<>>]

\* isinstance(e, (ValueError, OSError, IOError))
Taxonomy == {"ValueError", "OSError", "IOError"}

\* log_security_event: the record goes to stderr and its id is returned; ids
\* are the first digits of a hash over timestamp, type and details, here
\* the position of the record in the log
log_security_event(log, event_type, details) ==
    [log |-> Append(log, [event_id |-> Len(log) + 1, event_type |-> event_type,
                          details |-> details]),
     event_id |-> Len(log) + 1]

format_error_logged(logged) ==
    [log |-> logged.log,
     text |-> <<"An unexpected error occurred. Reference ID: ",
                logged.event_id>>]

format_error(log, e) ==
    IF e \in Taxonomy
    THEN [log |-> log, text |-> <<"Error: ", e>>]
    ELSE format_error_logged(log_security_event(log, "unexpected_error", e))

\* The async def of a tool, as written
Function(tool) == [tool |-> tool, guarded |-> FALSE]

\* with_error_handling(func) returns a wrapper that awaits func inside
\* try/except Exception
with_error_handling(func) == [func EXCEPT !.guarded = TRUE]

\* mcp.tool() is handed a function, enters it in the registry under its
\* name and hands the same function back
mcp_tool(registry, func) ==
    [t \in DOMAIN registry \cup {func.tool} |->
        IF t = func.tool THEN func ELSE registry[t]]

\* @with_error_handling stands above @mcp.tool(): decorators apply from the
\* bottom, so mcp.tool() receives the function as written, and the wrapper
\* is made afterwards and bound to the local name only
Decorated(registry, tool) ==
    [registry |-> mcp_tool(registry, Function(tool)),
     name |-> with_error_handling(Function(tool))]

Formatted(formatted) ==
    [log |-> formatted.log, how |-> "returned", text |-> formatted.text]

\* What the caller of func gets when its body ends as given
Invoke(log, func, body) ==
    IF body = "return"
    THEN [log |-> log, how |-> "returned", text |-> <<"Successfully">>]
    ELSE IF func.guarded THEN Formatted(format_error(log, body))
    ELSE [log |-> log, how |-> "raised", text |-> <<body>>]

Invoked(tool, body, got) ==
    /\ reply' = [tool |-> tool, body |-> body, how |-> got.how,
                 text |-> got.text]
    /\ seclog' = got.log

\* register_*_operations(mcp) defines one tool
Register(tool) ==
    /\ tool \notin DOMAIN tools
    /\ tools' = Decorated(tools, tool).registry
    /\ UNCHANGED <<envVars, sysVars, pathVars, classVars, seclog, reply>>

\* The dispatcher awaits the function registered under the tool's name
Dispatch(tool, body) ==
    /\ tool \in DOMAIN tools
    /\ Invoked(tool, body, Invoke(seclog, tools[tool], body))
    /\ UNCHANGED <<envVars, sysVars, pathVars, classVars, tools>>

(***************************************************************************)
(* Starting states shared by the specifications below.                     *)
(***************************************************************************)
ROOT == <<SLASH>>

\* The sandbox root, empty
BareDisk == (ROOT :> Dir) @@ (WorkingDir :> Dir)

\* The path of a name inside the sandbox root
InRoot(name) == path_join(WorkingDir, name)

NoResult == [ok |-> FALSE, path |-> <<>>, err |-> "not called"]
NotClassified == [called |-> FALSE, text |-> FALSE]

\* One call slot: calls are served one after the other
Slots == {"p1"}
QuietCalls == calls = [p \in Slots |-> IdleCall] /\ ncalls = 0 /\ now = 0
QuietPath == pg_raw = <<>> /\ pg_res = NoResult
QuietBound == tools = <<>> /\ seclog = <<>> /\ reply = NoReply
QuietClass == cl_path = <<>> /\ cl_file = Unreadable /\ cl_res = NotClassified

(***************************************************************************)
(* SpecPath: sanitize_path applied to each raw path of the bounded set.    *)
(***************************************************************************)
PathAlphabet == {"/", ".", "w", "x", ";"}
RawPaths == SeqsUpTo(PathAlphabet, MaxPathLen)

InitPath ==
    /\ config = DefaultConfig
    /\ fs = BareDisk
    /\ repos = <<>>
    /\ QuietCalls
    /\ QuietClass
    /\ QuietBound
    /\ pg_raw \in RawPaths
    /\ pg_res = NoResult

SanitizeCall ==
    /\ pg_res = NoResult
    /\ pg_res' = sanitize_path(pg_raw)
    /\ UNCHANGED <<envVars, sysVars, classVars, boundVars, pg_raw>>

NextPath == SanitizeCall

SpecPath == InitPath /\ [][NextPath]_vars

\* The path is the sandbox root or lies below it, once "." and ".." are resolved
InSandbox(path) ==
    LET real == abspath(path)
    IN  \/ real = config.abs_working_dir
        \/ startswith(real, config.abs_working_dir \o <<SLASH>>)

\* C1: every raw path is either rejected or mapped to an absolute path that
\* is the sandbox root or a descendant of it; a sibling directory whose name
\* begins with the root's characters is rejected.
C1_Containment ==
    pg_res.ok => (isabs(pg_res.path) /\ InSandbox(pg_res.path))

(***************************************************************************)
(* SpecClass: is_text_file applied to each path and file of the bounded    *)
(* sets.                                                                   *)
(***************************************************************************)
\* Longest file content the classifier is given
MaxSample == 4

\* NUL, a control character, G N P, and bytes of multi-byte UTF-8 and of the
\* PNG signature
ClassBytes == {0, 1, 71, 78, 80, 137, 169, 195}
ClassPaths ==
    {InRoot(<<"f">> \o ext) : ext \in {<<>>, EXT_TXT, EXT_PNG, EXT_BIN}}
ClassFiles ==
    {Unreadable} \cup {Readable(data) : data \in SeqsUpTo(ClassBytes, MaxSample)}

InitClass ==
    /\ config = DefaultConfig
    /\ fs = BareDisk
    /\ repos = <<>>
    /\ QuietCalls
    /\ QuietPath
    /\ QuietBound
    /\ cl_path \in ClassPaths
    /\ cl_file \in ClassFiles
    /\ cl_res = NotClassified

ClassifyCall ==
    /\ ~cl_res.called
    /\ cl_res' = [called |-> TRUE, text |-> is_text_file_of(cl_path, cl_file)]
    /\ UNCHANGED <<envVars, sysVars, pathVars, boundVars, cl_path, cl_file>>

NextClass == ClassifyCall

SpecClass == InitClass /\ [][NextClass]_vars

\* C9: a readable file whose first bytes are a known binary magic number is
\* classified as not text by the classifier that gates the text verbs,
\* whatever the extension of its path.
C9_BinaryGate ==
    (cl_res.called /\ cl_file.readable /\ has_binary_signature(cl_file.data))
        => ~cl_res.text

(***************************************************************************)
(* SpecText: the content verbs and read_file on text files, every system   *)
(* call succeeding, versioning switched off.                               *)
(***************************************************************************)
\* Longest text a request carries, in characters
MaxText == 2

\* Calls begun in one behaviour
MaxTextCalls == 1

\* LF, CR, "a", and e-acute, whose UTF-8 encoding takes two bytes
TextChars == {LF, CR, 97, 233}
Texts == SeqsUpTo(TextChars, MaxText)

\* A text one character longer than MAX_FILE_SIZE
OverSize == [i \in 1..(MAX_FILE_SIZE + 1) |-> 97]

A_TXT == <<"a", ".", "t", "x", "t">>
N_TXT == <<"n", ".", "t", "x", "t">>

PlainConfig == FileOpsConfig(FALSE, FALSE, FALSE)

WithContent(verb, path, content) ==
    [Request(verb, path) EXCEPT !.content = content]

WithStrings(verb, path, old_string, new_string) ==
    [Request(verb, path) EXCEPT !.old_string = old_string,
                                !.new_string = new_string]

TextRequests ==
    {WithContent("create_file", N_TXT, c) : c \in Texts \cup {OverSize}}
    \cup {WithContent("rewrite_file", A_TXT, c) : c \in Texts \cup {OverSize}}
    \cup {WithContent("append_to_file", path, c) :
             path \in {A_TXT, N_TXT}, c \in Texts}
    \cup {WithStrings(verb, A_TXT, <<97>>, new) :
             verb \in {"update_file", "replace_all_in_file"},
             new \in {<<>>, <<233>>, <<97, 97>>, <<CR>>}}
    \cup {WithStrings("remove_from_file", A_TXT, old, <<>>) :
             old \in {<<97>>, <<CR>>, <<>>}}
    \cup {[WithContent("insert_in_file", A_TXT, c) EXCEPT !.after_line = <<0>>] :
             c \in {<<97>>, <<233>>}}
    \cup {[WithContent("insert_in_file", A_TXT, c) EXCEPT !.before_line = <<n>>] :
             c \in {<<97>>, <<233>>}, n \in 0..1}
    \cup {[WithContent("insert_in_file", A_TXT, <<97>>)
               EXCEPT !.after_pattern = <<<<97>>>>]}

ReadRequests == {Request("read_file", path) : path \in {A_TXT, N_TXT}}

\* The file a.txt starts with any text that fits the size cap
InitText ==
    /\ config = PlainConfig
    /\ \E t \in Texts :
          /\ Len(text_write(t)) <= MAX_FILE_SIZE
          /\ fs = FsPut(BareDisk, InRoot(A_TXT), text_write(t))
    /\ repos = <<>>
    /\ QuietCalls
    /\ QuietPath
    /\ QuietClass
    /\ QuietBound

NextText ==
    \/ \E p \in Slots, req \in TextRequests :
          ncalls < MaxTextCalls /\ Begin(p, req)
    \/ \E p \in Slots, req \in ReadRequests :
          ncalls < MaxTextCalls /\ ReadFile(p, req)
    \/ \E p \in Slots : Mkdirs(p)
    \/ \E p \in Slots : WriteTemp(p, {"ok"})
    \/ \E p \in Slots : Replace(p, {"ok"})
    \/ \E p \in Slots : AppendStep(p, {"ok"})
    \/ \E p \in Slots : Finish(p)
    \/ \E p \in Slots : Return(p)

SpecText == InitText /\ [][NextText]_vars

\* A call that has returned its success message
Succeeded(c) == c.pc = "done" /\ c.result.status = "ok"

\* A call that has returned an error
Failed(c) == c.pc = "done" /\ c.result.status = "error"

\* What read_file(path) with no line range returns in the current state
ReadBack(path) == read_file(fs, Request("read_file", path))

\* C7: after create_file or rewrite_file has accepted the string c at path p,
\* read_file(p) with no line range returns exactly c, and the checksum the
\* write reported is SHA-256 of the UTF-8 encoding of c.
C7_RoundTrip ==
    \A p \in Slots :
        (Succeeded(calls[p]) /\ calls[p].req.verb \in {"create_file", "rewrite_file"})
            => /\ ReadBack(calls[p].req.path).status = "ok"
               /\ ReadBack(calls[p].req.path).content = calls[p].req.content
               /\ calls[p].result.checksum = sha256(utf8_encode(calls[p].req.content))

\* The verbs the size cap is claimed for
SizedVerbs ==
    {"create_file", "rewrite_file", "update_file", "replace_all_in_file",
     "append_to_file", "insert_in_file"}

\* C8: a content-writing verb that succeeds leaves its file no larger than
\* MAX_FILE_SIZE bytes: content of MAX_FILE_SIZE + 1 bytes is refused, with
\* the size counted in bytes, for every one of these verbs.
C8_SizeCap ==
    \A p \in Slots :
        (Succeeded(calls[p]) /\ calls[p].req.verb \in SizedVerbs)
            => getsize(fs, calls[p].target) <= MAX_FILE_SIZE

(***************************************************************************)
(* SpecFile: the file verbs with the operating system free to fail an      *)
(* open, a write part-way, or a rename; versioning switched off.           *)
(***************************************************************************)
\* Calls begun in one behaviour
MaxFileCalls == 2

A_FILE == <<"a">>
B_FILE == <<"b">>
D_B_FILE == <<"d", "/", "b">>

WithDest(verb, path, dest_path) ==
    [Request(verb, path) EXCEPT !.dest_path = dest_path]

FileRequests ==
    {WithContent("create_file", B_FILE, <<98, 98>>),
     WithContent("create_file", D_B_FILE, <<98>>),
     WithContent("rewrite_file", A_FILE, <<98, 98>>),
     WithContent("append_to_file", A_FILE, <<98>>),
     WithContent("append_to_file", B_FILE, <<98, 98>>),
     [WithContent("insert_in_file", A_FILE, <<98>>) EXCEPT !.before_line = <<0>>],
     WithStrings("update_file", A_FILE, <<97>>, <<98, 98>>),
     WithStrings("replace_all_in_file", A_FILE, <<97>>, <<98>>),
     WithStrings("remove_from_file", A_FILE, <<97>>, <<>>),
     WithDest("copy_file", A_FILE, D_B_FILE),
     WithDest("move_file", A_FILE, D_B_FILE)}

WriteOutcomes == {"ok", "fail_open", "partial"}
RenameOutcomes == {"ok", "fail"}

InitFile ==
    /\ config = PlainConfig
    /\ fs = FsPut(BareDisk, InRoot(A_FILE), <<97>>)
    /\ repos = <<>>
    /\ QuietCalls
    /\ QuietPath
    /\ QuietClass
    /\ QuietBound

NextFile ==
    \/ \E p \in Slots, req \in FileRequests :
          ncalls < MaxFileCalls /\ Begin(p, req)
    \/ \E p \in Slots : Mkdirs(p)
    \/ \E p \in Slots : WriteTemp(p, WriteOutcomes)
    \/ \E p \in Slots : Replace(p, RenameOutcomes)
    \/ \E p \in Slots : Cleanup(p)
    \/ \E p \in Slots : Verify(p)
    \/ \E p \in Slots : AppendStep(p, WriteOutcomes)
    \/ \E p \in Slots : Rename(p, RenameOutcomes)
    \/ \E p \in Slots : MoveFallback(p, WriteOutcomes)
    \/ \E p \in Slots : Finish(p)
    \/ \E p \in Slots : Return(p)

SpecFile == InitFile /\ [][NextFile]_vars

\* The node at the path is the same in the two filesystems: absent in both,
\* or present in both with the same kind and bytes
SameNode(f, g, path) ==
    /\ exists(f, path) <=> exists(g, path)
    /\ exists(f, path) => f[path] = g[path]

\* The verbs that change the content of a file
ContentVerbs ==
    {"create_file", "update_file", "rewrite_file", "remove_from_file",
     "append_to_file", "insert_in_file", "replace_all_in_file"}

\* The complete content the call is about to give its target
NewContent(c) ==
    IF c.req.verb = "append_to_file" /\ isfile(c.pre_fs, c.target)
    THEN c.pre_fs[c.target].data \o c.data
    ELSE c.data

\* C2: at every point of a content-mutating call, also after a write that
\* failed part-way, the target holds either its complete prior content (or
\* is still absent) or the complete new content.
C2_AtomicReplace ==
    \A p \in Slots :
        (calls[p].req.verb \in ContentVerbs /\ calls[p].target # <<>>)
            => \/ SameNode(fs, calls[p].pre_fs, calls[p].target)
               \/ /\ isfile(fs, calls[p].target)
                  /\ fs[calls[p].target].data = NewContent(calls[p])

\* The verbs that write a temp file and rename it onto the target
AtomicVerbs ==
    {"create_file", "update_file", "rewrite_file", "remove_from_file",
     "insert_in_file", "replace_all_in_file"}

C6_FailureLeavesDisk ==
    \A p \in Slots :
        (Failed(calls[p]) /\ calls[p].req.verb \in StepVerbs)
            => fs = calls[p].pre_fs

(***************************************************************************)
(* SpecVcs: the file, directory and repository verbs with versioning on    *)
(* and no system call failing.  The server starts read-write or read-only, *)
(* in a sandbox that has no repository yet or one with two checkpoints.    *)
(***************************************************************************)
\* Calls begun in one behaviour
MaxVcsCalls == 3

C_FILE == <<"c">>
D_DIR == <<"d">>
HERE == DOT
DEV == "dev"
TOPIC == "topic"

ReadOnlyConfig == FileOpsConfig(TRUE, TRUE, TRUE)

\* Versioning on, auto-commit off
AutoOffConfig == FileOpsConfig(FALSE, TRUE, FALSE)

\* a and b as the sandbox holds them at the start
TwoFiles ==
    FsPut(FsPut(BareDisk, InRoot(A_FILE), <<97>>), InRoot(B_FILE), <<98>>)

\* The repository at the sandbox root after git_init, a checkpoint of a, the
\* branch dev made there, and a checkpoint of b
SeedFirst ==
    index_commit(NewRepo, InRoot(A_FILE) :> <<97>>,
                 CommitMessage(NoMessage, "rewrite_file", A_FILE))

SeedBranch == [SeedFirst EXCEPT !.branches = (DEV :> HeadId(SeedFirst)) @@ @]

SeedRepo ==
    index_commit(SeedBranch,
                 (InRoot(A_FILE) :> <<97>>) @@ (InRoot(B_FILE) :> <<98>>),
                 CommitMessage(NoMessage, "rewrite_file", B_FILE))

VcsRequests ==
    {WithContent("rewrite_file", A_FILE, <<98>>),
     WithContent("rewrite_file", B_FILE, <<98>>),
     WithContent("create_file", C_FILE, <<97>>),
     WithContent("append_to_file", A_FILE, <<98>>),
     WithDest("copy_file", A_FILE, C_FILE),
     WithDest("move_file", A_FILE, C_FILE),
     Request("delete_file", B_FILE),
     [Request("delete_multiple_files", <<>>) EXCEPT !.paths = <<A_FILE, C_FILE>>],
     Request("create_dir", D_DIR),
     Request("delete_dir", D_DIR)}

VcsGitRequests ==
    {Request("git_init", HERE),
     [Request("git_commit", A_FILE) EXCEPT !.commit_message = "m"],
     [Request("git_revert", A_FILE) EXCEPT !.commit_id = 1],
     [Request("git_branch_create", HERE) EXCEPT !.branch_name = TOPIC],
     [Request("git_branch_switch", HERE) EXCEPT !.branch_name = DEV]}

InitVcs ==
    /\ config \in {DefaultConfig, ReadOnlyConfig, AutoOffConfig, PlainConfig}
    /\ \/ fs = TwoFiles /\ repos = <<>>
       \/ /\ fs = FsPut(TwoFiles, InRoot(GITIGNORE), text_write(GITIGNORE_TEXT))
          /\ repos = (WorkingDir :> SeedRepo)
    /\ QuietCalls
    /\ QuietPath
    /\ QuietClass
    /\ QuietBound

NextVcs ==
    \/ \E p \in Slots, req \in VcsRequests :
          ncalls < MaxVcsCalls /\ Begin(p, req)
    \/ \E p \in Slots, req \in VcsGitRequests :
          ncalls < MaxVcsCalls /\ GitCall(p, req)
    \/ \E p \in Slots : Mkdirs(p)
    \/ \E p \in Slots : WriteTemp(p, {"ok"})
    \/ \E p \in Slots : Replace(p, {"ok"})
    \/ \E p \in Slots : Verify(p)
    \/ \E p \in Slots : AppendStep(p, {"ok"})
    \/ \E p \in Slots : Rename(p, {"ok"})
    \/ \E p \in Slots : Remove(p)
    \/ \E p \in Slots : DeleteMany(p)
    \/ \E p \in Slots : MakeDir(p)
    \/ \E p \in Slots : RemoveDir(p)
    \/ \E p \in Slots : Finish(p)
    \/ \E p \in Slots : Return(p)

SpecVcs == InitVcs /\ [][NextVcs]_vars

\* The verbs that mutate one file, their target being that file
FileVerbs == ContentVerbs \cup {"copy_file", "move_file", "delete_file"}

\* The HEAD commit of the repository records the path as the disk has it
Recorded(f, repo, path) ==
    IF isfile(f, path)
    THEN path \in DOMAIN HeadTree(repo) /\ HeadTree(repo)[path] = f[path].data
    ELSE path \notin DOMAIN HeadTree(repo)

\* The repository the path lies in has a HEAD commit that records it
RecordedAt(f, r, root, path) ==
    /\ root # <<>>
    /\ startswith(root, WorkingDir)
    /\ HeadId(r[root]) # 0
    /\ Recorded(f, r[root], path)

\* C4: with versioning and auto-commit on, a successful call of a verb that
\* mutates a file ends with a repository under the sandbox whose HEAD commit
\* records the new state of the file, also when the call is the first one
\* and found no repository.
C4_CheckpointOnSuccess ==
    \A p \in Slots :
        (/\ Succeeded(calls[p])
         /\ calls[p].req.verb \in FileVerbs
         /\ config.git_enabled /\ config.git_auto_commit)
            => RecordedAt(fs, repos, FindRoot(repos, dirname(calls[p].target)),
                          calls[p].target)

\* The verbs the read-only mode is to refuse
WriteClassVerbs == StepVerbs \cup GitVerbs

\* C5: in read-only mode every write-class call returns the read-only error
\* and leaves the files, directories and repositories as they were.
C5_ReadOnly ==
    \A p \in Slots :
        (/\ config.read_only
         /\ calls[p].pc = "done"
         /\ calls[p].req.verb \in WriteClassVerbs)
            => /\ Failed(calls[p])
               /\ calls[p].result.err = "read-only"
               /\ fs = calls[p].pre_fs
               /\ repos = calls[p].pre_repos

\* The call found its target committed at HEAD and has left it with exactly
\* the committed bytes
LeftAsCommitted(c, root) ==
    /\ root # <<>>
    /\ c.target \in DOMAIN HeadTree(c.pre_repos[root])
    /\ isfile(fs, c.target)
    /\ fs[c.target].data = HeadTree(c.pre_repos[root])[c.target]

\* No commit was made and HEAD is where it was
NoNewCommit(c, root) ==
    /\ c.result.commit = "No changes to commit"
    /\ repos[root].commits = c.pre_repos[root].commits
    /\ HeadId(repos[root]) = HeadId(c.pre_repos[root])

\* C10: a successful content-mutating call that leaves a path byte-identical
\* to what HEAD has committed for it reports "No changes to commit" and
\* makes no new commit, whatever calls came before it.
C10_NoOpCheckpoint ==
    \A p \in Slots :
        (/\ Succeeded(calls[p])
         /\ calls[p].req.verb \in ContentVerbs
         /\ LeftAsCommitted(calls[p],
                            FindRoot(calls[p].pre_repos,
                                     dirname(calls[p].target))))
            => NoNewCommit(calls[p],
                           FindRoot(calls[p].pre_repos,
                                    dirname(calls[p].target)))

\* Versioning is disabled or auto-commit is off
CheckpointsOff == ~config.git_enabled \/ ~config.git_auto_commit

\* C11: with versioning disabled or auto-commit off no mutating verb creates
\* a repository, stages or commits anything or writes .gitignore, at any
\* point of the call, and a call that succeeds reports no checkpoint.
C11_NoCheckpointWhenOff ==
    \A p \in Slots :
        (/\ CheckpointsOff
         /\ calls[p].req.verb \in StepVerbs
         /\ calls[p].pc # "idle")
            => /\ repos = calls[p].pre_repos
               /\ exists(fs, InRoot(GITIGNORE))
                      <=> exists(calls[p].pre_fs, InRoot(GITIGNORE))
               /\ Succeeded(calls[p]) => calls[p].result.commit = "None"

\* With checkpoints off a mutating call has succeeded and changed the disk
C11_Witness ==
    \E p \in Slots :
        /\ CheckpointsOff
        /\ Succeeded(calls[p])
        /\ calls[p].req.verb \in StepVerbs
        /\ fs # calls[p].pre_fs

(***************************************************************************)
(* SpecLedger: SpecVcs with the git calls of the checkpoint free to fail.  *)
(***************************************************************************)
NextLedger ==
    \/ NextVcs
    \/ \E p \in Slots : CheckpointFails(p)

SpecLedger == InitVcs /\ [][NextLedger]_vars

\* The files the checkpoint may add: the .gitignore of a new repository
IsGitignore(path) == basename(path) = GITIGNORE

\* Every node of f is in g unchanged, and g adds nothing but .gitignore files
KeptOnDisk(f, g) ==
    /\ \A q \in DOMAIN f : q \in DOMAIN g /\ g[q] = f[q]
    /\ \A q \in DOMAIN g \ DOMAIN f : IsGitignore(q)

\* C12: the checkpoint step of a mutating verb, whatever goes wrong in
\* locating or initialising the repository, staging or committing, ends the
\* call with its success message and leaves every file the mutation wrote as
\* it is.
C12_VersioningNeverFatal ==
    [][\A p \in Slots :
          (/\ calls[p].pc = "finish"
           /\ calls[p].req.verb \in StepVerbs
           /\ calls'[p] # calls[p])
              => /\ Succeeded(calls'[p])
                 /\ KeptOnDisk(fs, fs')]_vars

\* A mutating call has changed the disk and returned success with the
\* advisory note of a failed checkpoint
C12_Witness ==
    \E p \in Slots :
        /\ Succeeded(calls[p])
        /\ calls[p].req.verb \in StepVerbs
        /\ calls[p].result.commit = "Auto-commit failed"
        /\ fs # calls[p].pre_fs
        /\ calls[p].pre_repos # <<>>

\* The file at path holds exactly these bytes
Holds(f, path, data) == isfile(f, path) /\ read_bytes(f, path) = data

\* Source and destination of a move that has ended, against the content the
\* source had when the call began: one of them holds it, neither holds
\* anything else, the source is gone only when the destination has the size
\* and checksum taken before the move, and after a failed move the source is
\* intact and there is no destination
MoveEnded(c, original) ==
    /\ Holds(fs, c.src, original) \/ Holds(fs, c.target, original)
    /\ isfile(fs, c.src) => Holds(fs, c.src, original)
    /\ isfile(fs, c.target) => Holds(fs, c.target, original)
    /\ ~isfile(fs, c.src) =>
           /\ getsize(fs, c.target) = c.source.size
           /\ generate_checksum(fs, c.target) = c.source.checksum
    /\ Failed(c) => Holds(fs, c.src, original) /\ ~exists(fs, c.target)

MaxRaceCalls == 2

\* The last whole second the clock reaches
MaxClock == 1

RaceSlots == {"p1", "p2"}

\* A file whose name has the form of a temp name of b
LEFT_FILE == temp_name(B_FILE, 0)

RaceRequests ==
    {WithContent("rewrite_file", A_FILE, <<98>>),
     WithContent("rewrite_file", A_FILE, <<99>>),
     WithStrings("update_file", A_FILE, <<97>>, <<100>>),
     WithContent("create_file", B_FILE, <<98>>),
     WithContent("create_file", B_FILE, <<99>>),
     WithDest("copy_file", A_FILE, B_FILE),
     WithDest("copy_file", LEFT_FILE, B_FILE),
     WithDest("move_file", A_FILE, B_FILE)}

InitRace ==
    /\ config = PlainConfig
    /\ fs = FsPut(FsPut(BareDisk, InRoot(A_FILE), <<97>>),
                  InRoot(LEFT_FILE), <<101>>)
    /\ repos = <<>>
    /\ calls = [p \in RaceSlots |-> IdleCall]
    /\ ncalls = 0
    /\ now = 0
    /\ QuietPath
    /\ QuietClass
    /\ QuietBound

\* int(time.time()) moves on to the next second
Tick ==
    /\ now < MaxClock
    /\ now' = now + 1
    /\ UNCHANGED <<config, fs, repos, calls, ncalls, pathVars, classVars, boundVars>>

NextRace ==
    \/ \E p \in RaceSlots, req \in RaceRequests :
          ncalls < MaxRaceCalls /\ Begin(p, req)
    \/ \E p \in RaceSlots : Mkdirs(p)
    \/ \E p \in RaceSlots : WriteTemp(p, {"ok"})
    \/ \E p \in RaceSlots : Replace(p, {"ok"})
    \/ \E p \in RaceSlots : Cleanup(p)
    \/ \E p \in RaceSlots : Verify(p)
    \/ \E p \in RaceSlots : Rename(p, {"ok"})
    \/ \E p \in RaceSlots : MoveFallback(p, {"ok"})
    \/ \E p \in RaceSlots : Finish(p)
    \/ \E p \in RaceSlots : Return(p)
    \/ Tick

SpecRace == InitRace /\ [][NextRace]_vars

\* The step is one of the call in slot p, which is past its entry
StepOf(p) == calls'[p] # calls[p] /\ calls[p].pc \notin {"idle", "done"}

\* The destination is what copy_file took from the source before copying
AsCaptured(f, c) ==
    /\ getsize(f, c.target) = c.source.size
    /\ generate_checksum(f, c.target) = c.source.checksum

\* C14: copy_file reports success only when the size and SHA-256 of the
\* destination, re-read after the rename, equal those taken from the source
\* before copying; when they differ the destination is deleted and the call
\* fails with the verification error; and no step of the call changes the
\* source.
C14_CopyVerified ==
    [][\A p \in RaceSlots :
          (calls[p].req.verb = "copy_file" /\ StepOf(p))
              => /\ SameNode(fs, fs', calls[p].src)
                 /\ (calls[p].pc = "verify" /\ isfile(fs, calls[p].target))
                       => IF AsCaptured(fs, calls[p])
                          THEN calls'[p].pc = "finish" /\ fs' = fs
                          ELSE /\ Failed(calls'[p])
                               /\ calls'[p].result.err = "Copy verification failed"
                               /\ ~exists(fs', calls[p].target)
                 /\ Succeeded(calls'[p])
                       => /\ calls[p].pc = "finish"
                          /\ calls'[p].result.checksum = calls[p].source.checksum
      ]_vars

\* The call has named its temp file and has not yet renamed or removed it
HasTemp(c) == c.pc \in {"replace", "cleanup"} /\ c.temp_path # <<>>

BothReturned(c, d) ==
    /\ c.pc = "done"
    /\ d.pc = "done"
    /\ c.req.verb \in {"rewrite_file", "update_file"}
    /\ d.req.verb \in {"rewrite_file", "update_file"}
    /\ c.target = d.target

C18_CreateNeverReplaces ==
    \A p, q \in RaceSlots :
        (/\ p # q
         /\ calls[p].req.verb = "create_file"
         /\ calls[q].req.verb = "create_file"
         /\ calls[p].target = calls[q].target
         /\ calls[p].pc = "done"
         /\ calls[q].pc = "done"
         /\ Succeeded(calls[p]))
            => /\ Failed(calls[q])
               /\ Holds(fs, calls[p].target, calls[p].data)

\* Every path the call was given has passed validate_operation; for the
\* single-path verbs this is what entering the handler's steps means
AllValidated(c) ==
    /\ c.pc # "idle"
    /\ c.req.verb = "delete_multiple_files"
          => \A i \in DOMAIN c.req.paths :
                validate_operation(c.pre_fs, c.req.paths[i], "delete_file",
                                   FALSE, TRUE).ok

FirstValidation(c) ==
    validate_operation(c.pre_fs, c.req.path, c.req.verb, TRUE, TRUE)

\* C20: when the validate_operation call of a handler fails, whatever the
\* reason, a security event has been logged before the error is raised.
C20_FailureLogged ==
    \A p \in Slots :
        (/\ calls[p].pc = "done"
         /\ calls[p].req.verb \in StepVerbs \ {"delete_multiple_files"}
         /\ ~FirstValidation(calls[p]).ok)
            => /\ Failed(calls[p])
               /\ calls[p].event # "none"

(***************************************************************************)
(* SpecBoundary: the tools are registered, in any order, and the           *)
(* dispatcher invokes registered tools whose bodies return or raise.       *)
(***************************************************************************)
ToolNames ==
    {"copy_file", "create_file", "rewrite_file", "create_dir", "git_init"}

\* How a body can end: ValueError from validation, OSError from a system
\* call outside a try block, or an exception outside the taxonomy
Bodies == {"return", "ValueError", "OSError", "TypeError"}

InitBoundary ==
    /\ config = DefaultConfig
    /\ fs = BareDisk
    /\ repos = <<>>
    /\ QuietCalls
    /\ QuietPath
    /\ QuietClass
    /\ QuietBound

NextBoundary ==
    \/ \E tool \in ToolNames : Register(tool)
    \/ \E tool \in ToolNames, body \in Bodies : Dispatch(tool, body)

SpecBoundary == InitBoundary /\ [][NextBoundary]_vars

\* The reply names an event that is in the log
ReferenceLogged ==
    \E i \in DOMAIN seclog :
        /\ seclog[i].event_type = "unexpected_error"
        /\ reply.text = <<"An unexpected error occurred. Reference ID: ",
                          seclog[i].event_id>>

\* C15: whatever the body of a registered tool does, the handler the
\* dispatcher invokes returns: a ValueError or OSError comes back as the
\* string "Error: ...", any other exception as "An unexpected error
\* occurred. Reference ID: <id>" with a security event of that id logged.
C15_ErrorBoundary ==
    reply.tool # "none"
        => /\ reply.how = "returned"
           /\ reply.body \in Taxonomy => reply.text = <<"Error: ", reply.body>>
           /\ reply.body \notin Taxonomy \cup {"return"} => ReferenceLogged

(***************************************************************************)
(* SpecKinds: the verbs that need their target, asked of a file, of a      *)
(* directory and of a name that is not there; the server writable or       *)
(* read-only, versioning off.                                              *)
(***************************************************************************)
\* Calls begun in one behaviour
MaxKindCalls == 2

\* The requests made of one path; copies and moves go to c
RequestsOn(path) ==
    {WithContent("rewrite_file", path, <<98>>),
     WithStrings("update_file", path, <<97>>, <<98>>),
     WithStrings("remove_from_file", path, <<97>>, <<>>),
     WithStrings("replace_all_in_file", path, <<97>>, <<98>>),
     Request("delete_file", path),
     Request("delete_dir", path),
     WithDest("copy_file", path, C_FILE),
     WithDest("move_file", path, C_FILE)}

KindRequests == RequestsOn(A_FILE) \cup RequestsOn(D_DIR) \cup RequestsOn(N_TXT)

InitKinds ==
    /\ config \in {PlainConfig, [PlainConfig EXCEPT !.read_only = TRUE]}
    /\ fs = FsPut(BareDisk, InRoot(A_FILE), <<97>>) @@ (InRoot(D_DIR) :> Dir)
    /\ repos = <<>>
    /\ QuietCalls
    /\ QuietPath
    /\ QuietClass
    /\ QuietBound

NextKinds ==
    \/ \E p \in Slots, req \in KindRequests :
          ncalls < MaxKindCalls /\ Begin(p, req)
    \/ \E p \in Slots : Mkdirs(p)
    \/ \E p \in Slots : WriteTemp(p, {"ok"})
    \/ \E p \in Slots : Replace(p, {"ok"})
    \/ \E p \in Slots : Verify(p)
    \/ \E p \in Slots : Rename(p, {"ok"})
    \/ \E p \in Slots : Remove(p)
    \/ \E p \in Slots : RemoveDir(p)
    \/ \E p \in Slots : Finish(p)
    \/ \E p \in Slots : Return(p)

SpecKinds == InitKinds /\ [][NextKinds]_vars

\* The verbs whose target has to be there
NeedsTarget ==
    {"update_file", "rewrite_file", "delete_file", "delete_dir",
     "remove_from_file", "replace_all_in_file", "copy_file", "move_file"}

\* The call failed with the given kind of error and the disk is as it was
RefusedAs(c, errs) == Failed(c) /\ c.result.err \in errs /\ fs = c.pre_fs

MaxNoteCalls == 2

WithMessage(req, text) == [req EXCEPT !.commit_message = text]

\* Each request once as it is and once with the message "m"
NoteRequests ==
    LET plain == {WithContent("rewrite_file", A_FILE, <<98>>),
                  WithContent("create_file", D_B_FILE, <<98>>),
                  WithDest("move_file", A_FILE, C_FILE),
                  Request("delete_file", B_FILE)}
    IN  plain \cup {WithMessage(req, "m") : req \in plain}

InitNote ==
    /\ config = DefaultConfig
    /\ fs = FsPut(TwoFiles, InRoot(GITIGNORE), text_write(GITIGNORE_TEXT))
    /\ repos = (WorkingDir :> SeedRepo)
    /\ QuietCalls
    /\ QuietPath
    /\ QuietClass
    /\ QuietBound

NextNote ==
    \/ \E p \in Slots, req \in NoteRequests :
          ncalls < MaxNoteCalls /\ Begin(p, req)
    \/ \E p \in Slots : Mkdirs(p)
    \/ \E p \in Slots : WriteTemp(p, {"ok"})
    \/ \E p \in Slots : Replace(p, {"ok"})
    \/ \E p \in Slots : Rename(p, {"ok"})
    \/ \E p \in Slots : Remove(p)
    \/ \E p \in Slots : Finish(p)
    \/ \E p \in Slots : Return(p)

SpecNote == InitNote /\ [][NextNote]_vars

\* The commits the repository at root has gained since the call began
NewCommits(c, root) ==
    {repos[root].commits[i] :
        i \in (Len(c.pre_repos[root].commits) + 1)..Len(repos[root].commits)}

\* The path the checkpoint was asked for, as the repository at root names it
CheckpointPath(c, root) == relpath(abspath(c.commit_path), root)

\* Every commit the returned call has made carries the message text(c, root)
CommitsCarry(c, text(_, _)) ==
    \A root \in DOMAIN repos \cap DOMAIN c.pre_repos :
        \A commit \in NewCommits(c, root) : commit.message = text(c, root)

\* "[op] r: m" with a message of the caller, "Updated r" without
MessageAsClaimed(c, root) ==
    IF c.req.commit_message # None
    THEN Message("[{operation}] {path}: {message}", c.req.verb,
                 CheckpointPath(c, root), c.req.commit_message)
    ELSE Message("Updated {path}", None, CheckpointPath(c, root), None)

\* "[op] r: m" with a message of the caller, "[op] r" without
MessageAsTemplate(c, root) ==
    IF c.req.commit_message # None
    THEN Message("[{operation}] {path}: {message}", c.req.verb,
                 CheckpointPath(c, root), c.req.commit_message)
    ELSE Message("[{operation}] {path}", c.req.verb, CheckpointPath(c, root),
                 None)

\* C22 as claimed: the commit a checkpoint makes for operation op on the
\* relative path r has the message "[op] r: m" when the caller supplied the
\* message m, and "Updated r" when the caller supplied none.
C22_MessageAsClaimed ==
    \A p \in Slots :
        (calls[p].pc = "done" /\ calls[p].req.verb \in StepVerbs)
            => CommitsCarry(calls[p], MessageAsClaimed)

\* C22 as amended: the commit a checkpoint makes for operation op on the
\* relative path r has the message "[op] r: m" when the caller supplied the
\* message m, and the message of the configured template, "[op] r", when
\* the caller supplied none.
C22_MessageAsTemplate ==
    \A p \in Slots :
        (calls[p].pc = "done" /\ calls[p].req.verb \in StepVerbs)
            => CommitsCarry(calls[p], MessageAsTemplate)

\* Two checkpoints have made their commits, the later one for a call that
\* came without a message
C22_Witness ==
    \E p \in Slots :
        /\ calls[p].pc = "done"
        /\ calls[p].req.commit_message = None
        /\ NewCommits(calls[p], WorkingDir) # {}
        /\ Len(repos[WorkingDir].commits) = Len(SeedRepo.commits) + 2

\* The tree of the commit with the given id in a repository; no commit, no
\* tree
TreeOf(repo, id) == IF id = 0 THEN <<>> ELSE repo.commits[id].tree

\* The paths at which two trees differ
Differ(t, u) ==
    {q \in DOMAIN t \cup DOMAIN u :
        \/ q \notin DOMAIN t
        \/ q \notin DOMAIN u
        \/ t[q] # u[q]}

\* The verbs that mutate one path (copy and move: a source and a destination)
SinglePathVerbs ==
    {"create_file", "update_file", "rewrite_file", "append_to_file",
     "insert_in_file", "remove_from_file", "delete_file", "copy_file",
     "move_file"}

\* C23: a commit made by the checkpoint of a single-path verb differs from
\* its parent commit only at the path, or the two paths, the verb mutated.
C23_CheckpointScope ==
    \A p \in Slots :
        (calls[p].pc = "done" /\ calls[p].req.verb \in SinglePathVerbs)
            => \A root \in DOMAIN repos \cap DOMAIN calls[p].pre_repos :
                  \A commit \in NewCommits(calls[p], root) :
                      Differ(commit.tree, TreeOf(repos[root], commit.parent))
                          \subseteq {calls[p].target, calls[p].src}

\* The paths a call mutates: its target, and for a move the source as well
Touched(c) ==
    IF c.req.verb = "move_file" THEN {c.target, c.src} ELSE {c.target}

\* C24: after a successful mutating call whose checkpoint committed, every
\* path the call touched has the same state in HEAD as on disk; after
\* move_file HEAD holds the destination with the moved content and no longer
\* the source.
C24_HeadMatchesDisk ==
    \A p \in Slots :
        (/\ Succeeded(calls[p])
         /\ calls[p].req.verb \in FileVerbs
         /\ calls[p].result.commit = "committed")
            => \A q \in Touched(calls[p]) :
                  RecordedAt(fs, repos, FindRoot(repos, dirname(calls[p].target)), q)

(***************************************************************************)
(* SpecLazy: first mutations in a sandbox that has two subdirectories and  *)
(* no repository anywhere.                                                 *)
(***************************************************************************)
MaxLazyCalls == 2

E_DIR == <<"e">>
D_A_FILE == <<"d", "/", "a">>
E_A_FILE == <<"e", "/", "a">>
E_B_FILE == <<"e", "/", "b">>

TwoDirs ==
    (InRoot(D_DIR) :> Dir) @@ (InRoot(E_DIR) :> Dir)
        @@ FsPut(FsPut(BareDisk, InRoot(D_B_FILE), <<98>>), InRoot(E_B_FILE), <<98>>)

LazyRequests ==
    {WithContent("create_file", D_A_FILE, <<97>>),
     WithContent("create_file", E_A_FILE, <<97>>),
     WithContent("rewrite_file", D_B_FILE, <<97>>),
     WithContent("create_file", A_FILE, <<97>>),
     WithDest("move_file", D_B_FILE, E_A_FILE),
     Request("delete_file", E_B_FILE)}

InitLazy ==
    /\ config = DefaultConfig
    /\ fs = TwoDirs
    /\ repos = <<>>
    /\ QuietCalls
    /\ QuietPath
    /\ QuietClass
    /\ QuietBound

NextLazy ==
    \/ \E p \in Slots, req \in LazyRequests :
          ncalls < MaxLazyCalls /\ Begin(p, req)
    \/ \E p \in Slots : Mkdirs(p)
    \/ \E p \in Slots : WriteTemp(p, {"ok"})
    \/ \E p \in Slots : Replace(p, {"ok"})
    \/ \E p \in Slots : Rename(p, {"ok"})
    \/ \E p \in Slots : Remove(p)
    \/ \E p \in Slots : Finish(p)
    \/ \E p \in Slots : Return(p)

SpecLazy == InitLazy /\ [][NextLazy]_vars

\* The call began with no repository at or above the file it mutates
NoRepositoryAbove(c) == FindRoot(c.pre_repos, dirname(c.target)) = <<>>

ByContent ==
    /\ cl_res.called
    /\ cl_file.readable
    /\ suffix(cl_path) \notin binary_extensions
    /\ guess_type(cl_path) \notin {"text/plain", "image/png"}

\* The sample is not empty, has no null byte and decodes as UTF-8
Statistical(sample) ==
    /\ sample # <<>>
    /\ \A i \in 1..Len(sample) : sample[i] # 0
    /\ utf8_decode(sample).ok

\* C26: in the statistical fallback the classifier answers binary exactly
\* when the ratio of printable bytes to the sample length is strictly below
\* 0.75, and text otherwise, a ratio of exactly 0.75 included.
C26_RatioThreshold ==
    (ByContent /\ Statistical(read_sample(cl_file.data)))
        => (cl_res.text
               <=> 4 * printable_count(read_sample(cl_file.data))
                       >= 3 * Len(read_sample(cl_file.data)))

\* C27: whenever the file cannot be opened or read the classifier answers
\* not text, whatever the extension or MIME type of the path.
C27_FailClosed ==
    (cl_res.called /\ ~cl_file.readable) => ~cl_res.text

(***************************************************************************)
(* SpecEmoji: replace_all_emojis_in_files on files that hold an emoji, one *)
(* with no extension, one named as text and one named as an image, a plain *)
(* text file and a file that is not UTF-8.                                 *)
(***************************************************************************)
MaxEmojiCalls == 2

\* Most files one call lists
MaxListed == 2

F_PNG == <<"f", ".", "p", "n", "g">>
EmojiNames == {A_FILE, B_FILE, C_FILE, N_TXT, F_PNG}

EmojiDisk ==
    FsPut(FsPut(FsPut(FsPut(FsPut(BareDisk,
        InRoot(A_FILE), utf8_encode(ZAP)),
        InRoot(B_FILE), <<98>>),
        InRoot(C_FILE), <<255>>),
        InRoot(N_TXT), utf8_encode(ZAP)),
        InRoot(F_PNG), utf8_encode(ZAP))

\* The caller's emoji_mapping: None, or U+26A1 to "z"
EmojiMappings == {<<>>, ZAP :> <<122>>}

EmojiRequests ==
    {[Request("replace_all_emojis_in_files", <<>>)
         EXCEPT !.paths = file_paths, !.emoji_mapping = emoji_mapping] :
        file_paths \in SeqsUpTo(EmojiNames, MaxListed) \ {<<>>},
        emoji_mapping \in EmojiMappings}

InitEmoji ==
    /\ config \in {PlainConfig, DefaultConfig}
    /\ fs = EmojiDisk
    /\ repos = <<>>
    /\ QuietCalls
    /\ QuietPath
    /\ QuietClass
    /\ QuietBound

NextEmoji ==
    \/ \E p \in Slots, req \in EmojiRequests :
          ncalls < MaxEmojiCalls /\ Begin(p, req)
    \/ \E p \in Slots : ReplaceEmojis(p)
    \/ \E p \in Slots : Finish(p)
    \/ \E p \in Slots : Return(p)

SpecEmoji == InitEmoji /\ [][NextEmoji]_vars

\* The loop of replace_all_emojis_in_files has run
EmojisReplaced(c) ==
    c.req.verb = "replace_all_emojis_in_files" /\ c.pc \in {"finish", "done"}

\* The file the call lists under this name was one the classifier rejects
ListedBinary(c, name) ==
    /\ name \in Range(c.req.paths)
    /\ isfile(c.pre_fs, InRoot(name))
    /\ ~is_text_file(c.pre_fs, InRoot(name))

\* C28: every file replace_all_emojis_in_files lists that the classifier
\* rejects as binary is reported as failed and keeps its bytes.
C28_EmojiTextOnly ==
    \A p \in Slots : \A name \in EmojiNames :
        (EmojisReplaced(calls[p]) /\ ListedBinary(calls[p], name))
            => /\ name \in Range(calls[p].failed_files)
               /\ isfile(fs, InRoot(name))
               /\ read_bytes(fs, InRoot(name))
                      = read_bytes(calls[p].pre_fs, InRoot(name))

\* The verbs that replace the occurrences of old_string
ReplacingVerbs == {"update_file", "replace_all_in_file", "remove_from_file"}

\* The bytes of a file in which only the occurrences of old_string have
\* changed, into new_string: UTF-8 is self-synchronising, so the occurrences
\* of a string are the occurrences of its encoding
OnlyOccurrencesChanged(data, old_string, new_string) ==
    str_replace(data, utf8_encode(old_string), utf8_encode(new_string))

\* C29: a successful update_file, replace_all_in_file or remove_from_file
\* changes only the occurrences of old_string; every other byte of the file,
\* carriage returns of line endings included, is as it was.
C29_OnlyOccurrences ==
    \A p \in Slots :
        (Succeeded(calls[p]) /\ calls[p].req.verb \in ReplacingVerbs)
            => read_bytes(fs, calls[p].target)
                  = OnlyOccurrencesChanged(
                        read_bytes(calls[p].pre_fs, calls[p].target),
                        calls[p].req.old_string,
                        IF calls[p].req.verb = "remove_from_file" THEN <<>>
                        ELSE calls[p].req.new_string)

\* The lines of a text without their line feeds
LineTexts(text) ==
    [i \in DOMAIN splitlines_keep(text) |->
        IF endswith(splitlines_keep(text)[i], <<LF>>)
        THEN SubSeq(splitlines_keep(text)[i], 1, Len(splitlines_keep(text)[i]) - 1)
        ELSE splitlines_keep(text)[i]]

\* The lines of the file at path, as its bytes have them
FileLines(f, path) == LineTexts(utf8_decode(read_bytes(f, path)).text)

\* The position specifiers the request carries
Specifiers(req) == Len(req.after_line) + Len(req.before_line) + Len(req.after_pattern)

\* The indexes the request allows for the insertion into these lines
Positions(req, lines) ==
    IF req.after_line # <<>>
    THEN {k \in 1..Len(lines) : k = req.after_line[1] + 1}
    ELSE IF req.before_line # <<>>
    THEN {k \in 0..Len(lines) : k = req.before_line[1]}
    ELSE {k \in 1..Len(lines) : contains(lines[k], req.after_pattern[1])}

\* C30: a successful insert_in_file with exactly one position specifier
\* leaves the file with its original lines, unchanged and in order, and the
\* lines of the content between them at the position asked for, joined to
\* neither neighbour; with no specifier or several the call fails and the
\* file is as it was.
C30_InsertOwnLines ==
    \A p \in Slots :
        (calls[p].pc = "done" /\ calls[p].req.verb = "insert_in_file")
            => /\ (Succeeded(calls[p]) /\ Specifiers(calls[p].req) = 1)
                    => \E k \in Positions(calls[p].req,
                                          FileLines(calls[p].pre_fs, calls[p].target)) :
                          FileLines(fs, calls[p].target)
                              = SubSeq(FileLines(calls[p].pre_fs, calls[p].target), 1, k)
                                \o LineTexts(calls[p].req.content)
                                \o SubSeq(FileLines(calls[p].pre_fs, calls[p].target),
                                          k + 1,
                                          Len(FileLines(calls[p].pre_fs, calls[p].target)))
               /\ Specifiers(calls[p].req) # 1
                    => Failed(calls[p]) /\ fs = calls[p].pre_fs
====
